---- MODULE Spec2Model ----
(***************************************************************************)
(* A model of the staffer-sims turn orchestrator and outcome classifier.   *)
(*                                                                         *)
(*   src/simulation/simulation_engine.py   SimulationEngine                *)
(*   src/analysis/conversation_analyzer.py ConversationAnalyzer            *)
(*   src/analysis/models.py                FailureDetail, ConversationOutcome *)
(*                                                                         *)
(* Text.  A Python string is modelled as a sequence of atoms.  An atom is  *)
(* either the single character "?" or a whole sentence or phrase that      *)
(* holds no "?".  Every operation of the code on strings that the model    *)
(* needs (find("?"), slicing at the first "?", count("?"), lower(),        *)
(* "phrase in text", strip()) is computed on that sequence.  What a marker *)
(* phrase list or a field-extraction regex finds inside one atom is        *)
(* tabulated per atom (Occurrences, ExtractedIn); the tables were obtained *)
(* by running the analyzer's own code on each atom.  Atoms other than "?"  *)
(* end a sentence or are followed by "?", so no regex match spans atoms.   *)
(*                                                                         *)
(* Time.  time.time() - simulation_start_time is the variable clock; it    *)
(* never decreases and is kept up to the largest value that still matters  *)
(* for a comparison with timeout_seconds.                                  *)
(***************************************************************************)
EXTENDS Integers, Sequences, FiniteSets, TLC

(***************************************************************************)
(* Strings                                                                 *)
(***************************************************************************)
Q == "?"
WS == " "
LongGreeting == "Welcome aboard (long greeting)"

\* str.lower() on one atom
LowerAtom(a) ==
  CASE a = "Hi there." -> "hi there."
    [] a = "What brings you here" -> "what brings you here"
    [] a = "Job Title: Backend Engineer." -> "job title: backend engineer."
    [] a = "And which city" -> "and which city"
    [] a = "Here's the role." -> "here's the role."
    [] a = "Should I lock these in" -> "should i lock these in"
    [] a = "I don't know." -> "i don't know."
    [] a = "Hi - how can I help you" -> "hi - how can i help you"
    [] a = "Welcome aboard (long greeting)" -> "welcome aboard (long greeting)"
    [] a = "We want to grow the team." -> "we want to grow the team."
    [] a = "Looks good." -> "looks good."
    [] a = "Anyway." -> "anyway."
    [] a = "What do you think" -> "what do you think"
    [] a = "I can help you with that." -> "i can help you with that."
    [] a = "Full-time and remote at $120,000." -> "full-time and remote at $120,000."
    [] a = "Can you clarify that" -> "can you clarify that"
    [] a = "By the way, did you know... Anyway," -> "by the way, did you know... anyway,"
    [] a = "What were we discussing" -> "what were we discussing"
    [] a = "SUT API error at turn" -> "sut api error at turn"
    [] a = "Proxy API error at turn" -> "proxy api error at turn"
    [] a = "Request timeout." -> "request timeout."
    [] a = "Connection reset by peer." -> "connection reset by peer."
    [] a = "Permission denied." -> "permission denied."
    [] a = "No route to sut-gateway." -> "no route to sut-gateway."
    [] a = "Bad proxy reply." -> "bad proxy reply."
    [] a = "Looks good" -> "looks good"
    [] a = "Anyway" -> "anyway"
    [] a = "Full-time and remote at $120,000" -> "full-time and remote at $120,000"
    [] a = "It is remote." -> "it is remote."
    [] a = "It is full-time." -> "it is full-time."
    [] a = "Skills: Python." -> "skills: python."
    [] a = "HTTP 503 from proxy." -> "http 503 from proxy."
    [] a = "Rate limit exceeded." -> "rate limit exceeded."
    [] a = "Persona file is invalid." -> "persona file is invalid."
    [] a = "Simulation returned incomplete results" -> "simulation returned incomplete results"
    [] a = "Unknown error in retry loop" -> "unknown error in retry loop"
    [] a = "Employment Type:" -> "employment type:"
    [] a = "Full-time" -> "full-time"
    [] a = "Location:" -> "location:"
    [] a = "Remote" -> "remote"
    [] a = "Oslo," -> "oslo,"
    [] OTHER -> a

\* the marker phrases of the code that occur (case-sensitively) in one atom
Occurrences(a) ==
  CASE a = "No route to sut-gateway." -> {"sut"}
    [] a = "Bad proxy reply." -> {"proxy"}
    [] a = "job title: backend engineer." -> {"job title:"}
    [] a = "here's the role." -> {"here's the role"}
    [] a = "should i lock these in" -> {"should i lock these in"}
    [] a = "i don't know." -> {"i don't know"}
    [] a = "looks good." -> {"looks good"}
    [] a = "anyway." -> {"anyway"}
    [] a = "i can help you with that." -> {"i can help you with"}
    [] a = "can you clarify that" -> {"can you clarify"}
    [] a = "by the way, did you know... anyway," -> {"anyway", "by the way"}
    [] a = "sut api error at turn" -> {"sut"}
    [] a = "proxy api error at turn" -> {"proxy"}
    [] a = "no route to sut-gateway." -> {"sut"}
    [] a = "bad proxy reply." -> {"proxy"}
    [] a = "looks good" -> {"looks good"}
    [] a = "anyway" -> {"anyway"}
    [] a = "skills: python." -> {"skills:"}
    [] a = "Request timeout." -> {"timeout"}
    [] a = "request timeout." -> {"timeout"}
    [] a = "connection reset by peer." -> {"connection reset"}
    [] a = "HTTP 503 from proxy." -> {"503", "proxy"}
    [] a = "http 503 from proxy." -> {"503", "proxy"}
    [] a = "rate limit exceeded." -> {"rate limit"}
    [] a = "full-time and remote at $120,000." -> {"full-time", "remote"}
    [] a = "full-time and remote at $120,000" -> {"full-time", "remote"}
    [] a = "it is remote." -> {"remote"}
    [] a = "it is full-time." -> {"full-time"}
    [] a = "employment type:" -> {"employment type:"}
    [] a = "location:" -> {"location:"}
    [] a = "full-time" -> {"full-time"}
    [] a = "part-time" -> {"part-time"}
    [] a = "contractor" -> {"contract"}
    [] a = "internal" -> {"intern"}
    [] a = "remote" -> {"remote"}
    [] a = "hybrid" -> {"hybrid"}
    [] a = "on-site" -> {"on-site"}
    [] OTHER -> {}

\* the mandatory field keys for which _extract_field_value finds a value in one atom
ExtractedIn(a) ==
  CASE a = "Job Title: Backend Engineer." -> {"job_title"}
    [] a = "Anyway." -> {"location"}
    [] a = "Full-time and remote at $120,000." ->
         {"workplace_type", "employment_type", "location", "salary_range"}
    [] a = "Can you clarify that" -> {"location"}
    [] a = "By the way, did you know... Anyway," -> {"location"}
    [] a = "Anyway" -> {"location"}
    [] a = "Full-time and remote at $120,000" ->
         {"workplace_type", "employment_type", "location", "salary_range"}
    [] a = "It is remote." -> {"workplace_type", "location"}
    [] a = "It is full-time." -> {"employment_type"}
    [] a = "Skills: Python." -> {"skills"}
    [] OTHER -> {}

\* len() of one atom
AtomLen(a) ==
  CASE a = LongGreeting -> 600
    [] a = Q -> 1
    [] a = WS -> 1
    [] a = "Hi there." -> 9
    [] a = "What brings you here" -> 20
    [] a = "Job Title: Backend Engineer." -> 28
    [] a = "And which city" -> 14
    [] a = "Here's the role." -> 16
    [] a = "Should I lock these in" -> 22
    [] a = "I don't know." -> 13
    [] a = "Hi - how can I help you" -> 23
    [] a = "It is remote." -> 13
    [] a = "It is full-time." -> 16
    [] a = "Skills: Python." -> 15
    [] a = "employment type:" -> 16
    [] a = "full-time" -> 9
    [] a = "part-time" -> 9
    [] a = "contractor" -> 10
    [] a = "internal" -> 8
    [] a = "location:" -> 9
    [] a = "remote" -> 6
    [] a = "hybrid" -> 6
    [] a = "on-site" -> 7
    [] a = "and" -> 3
    [] a = "in" -> 2
    [] a = "a" -> 1
    [] a = "city" -> 4
    [] a = "salary" -> 6
    [] a = "la" -> 2
    [] OTHER -> 25

RECURSIVE TextLen(_)
TextLen(text) ==
  IF text = <<>> THEN 0 ELSE AtomLen(Head(text)) + TextLen(Tail(text))

Lower(text) == [i \in DOMAIN text |-> LowerAtom(text[i])]

\* phrase in text
Contains(text, phrase) == \E i \in DOMAIN text : phrase \in Occurrences(text[i])

\* any(phrase in text for phrase in phrases)
ContainsAny(text, phrases) == \E i \in DOMAIN text : Occurrences(text[i]) \cap phrases # {}

\* text.count("?")
CountQ(text) == Cardinality({i \in DOMAIN text : text[i] = Q})

\* text.find("?"): the 1-based position of the first "?", 0 when there is none
FindQ(text) ==
  IF \E i \in DOMAIN text : text[i] = Q
  THEN CHOOSE i \in DOMAIN text : text[i] = Q /\ \A j \in 1..(i - 1) : text[j] # Q
  ELSE 0

RECURSIVE LStrip(_)
LStrip(text) ==
  IF text # <<>> /\ Head(text) = WS THEN LStrip(Tail(text)) ELSE text

RECURSIVE RStrip(_)
RStrip(text) ==
  IF text # <<>> /\ text[Len(text)] = WS
  THEN RStrip(SubSeq(text, 1, Len(text) - 1))
  ELSE text

\* text.strip()
Strip(text) == RStrip(LStrip(text))

(***************************************************************************)
(* ConversationAnalyzer: phrase lists and mandatory fields                 *)
(***************************************************************************)
summary_phrases ==
  {"here's the role", "here is the role", "to summarize", "summary of the role",
   "candidate preview", "publish", "job description", "role summary",
   "should i lock these in", "great, i've got everything"}

confirmation_phrases ==
  {"yes", "looks good", "that's correct", "perfect", "sounds good",
   "that works", "confirmed", "accurate", "exactly what i need"}

role_adherence_phrases == {"sorry, i'm the one who needs help"}

persona_characteristics == {"drowning in work", "systems are getting hammered"}

recruiter_phrases ==
  {"i can help you with", "let me ask you about", "what's your budget",
   "i'll need to know", "let me gather", "i'm here to help you find"}

breaking_character_phrases ==
  {"i'm an ai", "as an ai", "i'm a language model", "i'm not real",
   "this is a simulation", "i'm programmed"}

\* field key -> label; prompts/recruiter_v1.txt is absent, so the defaults apply
mandatory_fields ==
  [job_title |-> "Job Title", workplace_type |-> "Workplace Type",
   employment_type |-> "Employment Type", location |-> "Location",
   seniority_level |-> "Seniority Level", skills |-> "Skills",
   responsibilities |-> "Responsibilities", salary_range |-> "Salary Range"]

\* label.lower().rstrip(":") + ":" for every mandatory field
FieldLabelMarkers ==
  {"job title:", "workplace type:", "employment type:", "location:",
   "seniority level:", "skills:", "responsibilities:", "salary range:"}

check_sut_provided_summary(sut_reply) == ContainsAny(Lower(sut_reply), summary_phrases)

\* a slip: "yes" the only confirmation
check_proxy_confirmation_YesOnly(proxy_reply) ==
  Contains(Lower(proxy_reply), "yes")

check_proxy_confirmation(proxy_reply) ==
  ContainsAny(Lower(proxy_reply), confirmation_phrases)

(***************************************************************************)
(* FailureDetail and ConversationOutcome.  An Optional field is a sequence *)
(* of length 0 (None) or 1; a context is a sequence of <<key, number>>.    *)
(***************************************************************************)
FailureDetail(category, reason, error_message, turn_occurred, context) ==
  [category |-> category, reason |-> reason, error_message |-> error_message,
   turn_occurred |-> turn_occurred, context |-> context]

ConversationOutcome(status, completion_level, success_indicators, issues, failures) ==
  [status |-> status, completion_level |-> completion_level,
   success_indicators |-> success_indicators, issues |-> issues,
   failures |-> failures, total_failures |-> Len(failures)]

\* a slip: two questions in one message tolerated
IsProtocolViolation_OverTwo(question_count) == question_count > 2

\* line 668
IsProtocolViolation(question_count) == question_count > 1

\* the failures _analyze_persona_adherence appends for the turn at 1-based position i
PersonaTurnFailures(turn, i) ==
  LET content == Lower(turn.content)
      question_count == CountQ(content)
  IN  IF turn.role = "user"
      THEN (IF ContainsAny(content, recruiter_phrases)
            THEN <<FailureDetail("PERSONA_DRIFT", "acting like recruiter", <<>>, <<i>>, <<>>)>>
            ELSE <<>>)
           \o
           (IF ContainsAny(content, breaking_character_phrases)
            THEN <<FailureDetail("PERSONA_DRIFT", "broke character", <<>>, <<i>>, <<>>)>>
            ELSE <<>>)
      ELSE IF turn.role = "system"
      THEN (IF IsProtocolViolation(question_count)
            THEN <<FailureDetail("PROTOCOL_VIOLATION", "SUT asked several questions",
                                 <<>>, <<i>>, << <<"question_count", question_count>> >>)>>
            ELSE <<>>)
           \o
           (IF Contains(content, "i don't know") \/ Contains(content, "i can't help")
            THEN <<FailureDetail("SUT_ERROR", "SUT expressed inability to help",
                                 <<>>, <<i>>, <<>>)>>
            ELSE <<>>)
      ELSE <<>>

RECURSIVE PersonaFailuresFrom(_, _)
PersonaFailuresFrom(turns, i) ==
  IF i > Len(turns) THEN <<>>
  ELSE PersonaTurnFailures(turns[i], i) \o PersonaFailuresFrom(turns, i + 1)

_analyze_persona_adherence(turns) == PersonaFailuresFrom(turns, 1)

\* the keys of the mandatory fields that _extract_all_fields finds in the joined contents
_extract_all_fields(turns) ==
  (DOMAIN mandatory_fields) \cap
  UNION {UNION {ExtractedIn(turns[t].content[i]) : i \in DOMAIN turns[t].content} : t \in DOMAIN turns}

\* a slip: exactly half of the fields missing counted as more than half
MoreThanHalfMissing_AtHalf(missing, total) == 2 * missing >= total

\* line 708: len(missing_fields) > len(self.mandatory_fields) * 0.5
MoreThanHalfMissing(missing, total) == 2 * missing > total

\* a slip: only a conversation of fewer than 2 turns counted as short
IsShortConversation_Two(turns) == Len(turns) < 2

\* line 720
IsShortConversation(turns) == Len(turns) < 4

_analyze_information_completeness(turns) ==
  LET extracted == _extract_all_fields(turns)
      n == Cardinality(DOMAIN mandatory_fields)
      missing == Cardinality(DOMAIN mandatory_fields \ extracted)
  IN  (IF MoreThanHalfMissing(missing, n)
       THEN <<FailureDetail("INCOMPLETE_INFORMATION", "Missing mandatory fields", <<>>, <<>>,
                            << <<"missing_fields", missing>>,
                               <<"gathered_fields", n - missing>> >>)>>
       ELSE <<>>)
      \o
      (IF IsShortConversation(turns)
       THEN <<FailureDetail("USER_ABANDONMENT", "Conversation ended prematurely", <<>>, <<>>,
                            << <<"total_turns", Len(turns)>> >>)>>
       ELSE <<>>)

\* a slip: the test for "proxy" made before the test for "sut"
ErrorCategory_ProxyFirst(error) ==
  IF Contains(Lower(error), "proxy") THEN "PROXY_ERROR"
  ELSE IF Contains(Lower(error), "sut") THEN "SUT_ERROR"
  ELSE "API_ERROR"

\* lines 257-261: the category of one API error string
ErrorCategory(error) ==
  IF Contains(Lower(error), "sut") THEN "SUT_ERROR"
  ELSE IF Contains(Lower(error), "proxy") THEN "PROXY_ERROR"
  ELSE "API_ERROR"

\* lines 256-268: one failure per error string, error_index 0-based
ApiErrorFailures(api_errors) ==
  [i \in DOMAIN api_errors |->
     FailureDetail(ErrorCategory(api_errors[i]), "API request failed during conversation",
                   <<api_errors[i]>>, <<>>, << <<"error_index", i - 1>> >>)]

\* lines 240-252
TimeoutFailures(turns, timeout_reached, elapsed_time, timeout_limit) ==
  IF timeout_reached
  THEN <<FailureDetail("TIMEOUT", "Conversation exceeded time limit", <<>>, <<>>,
                       << <<"elapsed_time", elapsed_time>>,
                          <<"timeout_limit", timeout_limit>>,
                          <<"turns_completed", Len(turns)>> >>)>>
  ELSE <<>>

\* a slip: the guard "if not timeout_reached" of line 270 left out
OutcomeStatus_ErrorOverrides(sut_provided_summary, proxy_confirmed, timeout_reached, api_errors) ==
  IF api_errors # <<>> THEN <<"ERROR", 10>>
  ELSE IF timeout_reached THEN <<"TIMEOUT", 25>>
  ELSE IF sut_provided_summary /\ proxy_confirmed THEN <<"COMPLETED_SUCCESSFULLY", 100>>
  ELSE IF sut_provided_summary THEN <<"SUMMARY_PROVIDED_AWAITING_CONFIRMATION", 80>>
  ELSE <<"INCOMPLETE", 50>>

\* a slip: the success test made before the timeout and error tests
OutcomeStatus_SuccessFirst(sut_provided_summary, proxy_confirmed, timeout_reached, api_errors) ==
  IF sut_provided_summary /\ proxy_confirmed THEN <<"COMPLETED_SUCCESSFULLY", 100>>
  ELSE IF timeout_reached THEN <<"TIMEOUT", 25>>
  ELSE IF api_errors # <<>> THEN <<"ERROR", 10>>
  ELSE IF sut_provided_summary THEN <<"SUMMARY_PROVIDED_AWAITING_CONFIRMATION", 80>>
  ELSE <<"INCOMPLETE", 50>>

\* a slip: the branch without a summary leaves the initial completion_level
OutcomeStatus_LevelUnset(sut_provided_summary, proxy_confirmed, timeout_reached, api_errors) ==
  IF timeout_reached THEN <<"TIMEOUT", 25>>
  ELSE IF api_errors # <<>> THEN <<"ERROR", 10>>
  ELSE IF sut_provided_summary /\ proxy_confirmed THEN <<"COMPLETED_SUCCESSFULLY", 100>>
  ELSE IF sut_provided_summary THEN <<"SUMMARY_PROVIDED_AWAITING_CONFIRMATION", 80>>
  ELSE <<"INCOMPLETE", 0>>

\* lines 231-273 and 284-305: status and completion_level
OutcomeStatus(sut_provided_summary, proxy_confirmed, timeout_reached, api_errors) ==
  LET s0 == <<"INCOMPLETE", 0>>
      s1 == IF timeout_reached THEN <<"TIMEOUT", 25>> ELSE s0
      s2 == IF api_errors # <<>> /\ ~timeout_reached THEN <<"ERROR", 10>> ELSE s1
  IN  IF ~timeout_reached /\ api_errors = <<>>
      THEN IF sut_provided_summary /\ proxy_confirmed
           THEN <<"COMPLETED_SUCCESSFULLY", 100>>
           ELSE IF sut_provided_summary
           THEN <<"SUMMARY_PROVIDED_AWAITING_CONFIRMATION", 80>>
           ELSE <<"INCOMPLETE", 50>>
      ELSE s2

\* a slip: the unconfirmed-summary branch appends no failure
SuccessSectionFailures_NoAbandonment(sut_provided_summary, proxy_confirmed, timeout_reached, api_errors) ==
  IF ~timeout_reached /\ api_errors = <<>> /\ ~sut_provided_summary
  THEN <<FailureDetail("INCOMPLETE_INFORMATION", "SUT did not provide a role summary",
                       <<>>, <<>>, <<>>)>>
  ELSE <<>>

\* lines 284-305: the failure the success section appends
SuccessSectionFailures(sut_provided_summary, proxy_confirmed, timeout_reached, api_errors) ==
  IF ~timeout_reached /\ api_errors = <<>>
  THEN IF sut_provided_summary /\ proxy_confirmed THEN <<>>
       ELSE IF sut_provided_summary
       THEN <<FailureDetail("USER_ABANDONMENT", "User did not confirm the provided summary",
                            <<>>, <<>>, <<>>)>>
       ELSE <<FailureDetail("INCOMPLETE_INFORMATION", "SUT did not provide a role summary",
                            <<>>, <<>>, <<>>)>>
  ELSE <<>>

\* lines 252, 273, 293, 301
OutcomeIssues(sut_provided_summary, proxy_confirmed, timeout_reached, api_errors) ==
  (IF timeout_reached THEN <<"conversation_timeout">> ELSE <<>>)
  \o (IF api_errors # <<>> /\ ~timeout_reached THEN <<"api_errors_occurred">> ELSE <<>>)
  \o (IF ~timeout_reached /\ api_errors = <<>> /\ ~(sut_provided_summary /\ proxy_confirmed)
      THEN IF sut_provided_summary THEN <<"user_did_not_confirm">>
           ELSE <<"no_role_summary_provided">>
      ELSE <<>>)

\* lines 308-316: the role-playing scan over the user turns
RECURSIVE RolePlayIndicatorsFrom(_, _)
RolePlayIndicatorsFrom(turns, i) ==
  IF i > Len(turns) THEN <<>>
  ELSE LET content == Lower(turns[i].content)
       IN  (IF turns[i].role = "user" /\ ContainsAny(content, role_adherence_phrases)
            THEN <<"role_adherence_maintained">> ELSE <<>>)
           \o (IF turns[i].role = "user" /\ ContainsAny(content, persona_characteristics)
               THEN <<"persona_characteristics_expressed">> ELSE <<>>)
           \o RolePlayIndicatorsFrom(turns, i + 1)

\* lines 288, 292, 308-316
OutcomeSuccessIndicators(turns, sut_provided_summary, proxy_confirmed, timeout_reached, api_errors) ==
  (IF ~timeout_reached /\ api_errors = <<>> /\ sut_provided_summary
   THEN IF proxy_confirmed THEN <<"role_summary_provided", "user_confirmed_summary">>
        ELSE <<"role_summary_provided">>
   ELSE <<>>)
  \o RolePlayIndicatorsFrom(turns, 1)

\* a slip: the detectors run only when there is neither a timeout nor an API error
DetectorFailures_OnCleanRunOnly(turns, timeout_reached, api_errors) ==
  IF timeout_reached \/ api_errors # <<>> THEN <<>>
  ELSE _analyze_persona_adherence(turns) \o _analyze_information_completeness(turns)

\* lines 275-281: both detectors run, whatever timeout_reached and api_errors are
DetectorFailures(turns, timeout_reached, api_errors) ==
  _analyze_persona_adherence(turns) \o _analyze_information_completeness(turns)

\* a slip: total_failures left as __post_init__ set it on the empty list
RecountFailures_Stale(outcome, failures) == [outcome EXCEPT !.failures = failures]

\* lines 318-320
RecountFailures(outcome, failures) ==
  [outcome EXCEPT !.failures = failures, !.total_failures = Len(failures)]

determine_conversation_outcome(turns, sut_provided_summary, proxy_confirmed, timeout_reached, api_errors, elapsed_time, timeout_limit) ==
  LET st == OutcomeStatus(sut_provided_summary, proxy_confirmed, timeout_reached, api_errors)
      failures ==
        TimeoutFailures(turns, timeout_reached, elapsed_time, timeout_limit)
        \o ApiErrorFailures(api_errors)
        \o DetectorFailures(turns, timeout_reached, api_errors)
        \o SuccessSectionFailures(sut_provided_summary, proxy_confirmed,
                                  timeout_reached, api_errors)
      outcome ==
        ConversationOutcome(
          st[1], st[2],
          OutcomeSuccessIndicators(turns, sut_provided_summary, proxy_confirmed,
                                   timeout_reached, api_errors),
          OutcomeIssues(sut_provided_summary, proxy_confirmed, timeout_reached, api_errors),
          <<>>)
  IN  RecountFailures(outcome, failures)

(***************************************************************************)
(* State                                                                   *)
(***************************************************************************)
VARIABLES
  pc,                   \* where run_simulation (or a direct classifier call) stands
  setup,                \* persona and scenario as given to run_simulation
  seed,                 \* scenario["rng_seed"]; <<>> before it is attached
  contract,             \* scenario["interaction_contract"]
  turn_idx,             \* the loop variable of the turn loop
  turns,                \* the turn list
  messages,             \* the message history
  api_errors,           \* the error strings recorded by the turn loop
  sut_provided_summary,
  fields_captured,
  last_tangent_turn,
  sut_reply,            \* the SUT reply of the current turn, after enforcement
  controller,           \* controller_text, tangent_decision, clarifying_allowed of the turn
  clock,                \* time.time() - simulation_start_time
  elapsed_time,         \* the value read at the top of the current iteration
  proxy_confirmed,
  timeout_reached,
  final_outcome,        \* <<>> until determine_conversation_outcome has returned
  hist,                 \* history of the run: calls made, decisions taken, how the loop ended
  run_dials,            \* the dials run_simulation computed; <<>> before that
  detected,             \* what a detector of the analyzer, called on its own, returned
  cli,                  \* command-line arguments and environment of simulate
  retry,                \* run_simulation_with_retry: attempts made and how it ended
  usage_stats,          \* engine.usage_stats, made once in __init__
  run_results,          \* the record run_simulation returns; <<>> before it returns
  loaded,               \* the prompt document and the mandatory fields an analyzer loads from it
  request,              \* one _make_request call: what the transport does and what is raised
  extracted             \* a text and the fields _extract_all_fields finds in it

vars ==
  <<pc, setup, seed, contract, turn_idx, turns, messages, api_errors, sut_provided_summary,
    fields_captured, last_tangent_turn, sut_reply, controller, clock, elapsed_time,
    proxy_confirmed, timeout_reached, final_outcome, hist, run_dials, detected, cli, retry,
    usage_stats, run_results, loaded, request, extracted>>

\* scenario.get("conversation_timeout", 120) and the classifier's timeout_limit default
DefaultTimeout == 120

\* a slip: every turn recorded under the role of the SUT
Turn_AsSystem(role, content, turn_controller) ==
  [role |-> "system", content |-> content, turn_controller |-> turn_controller]

Turn(role, content, turn_controller) ==
  [role |-> role, content |-> content, turn_controller |-> turn_controller]

NoController == [controller_text |-> <<>>, tangent_decision |-> FALSE, clarifying_allowed |-> "no"]

NoHist ==
  [run |-> 1, sut_calls |-> 0, proxy_calls |-> 0, failed_calls |-> 0, exit |-> "none",
   decisions |-> <<>>, timeout_seen |-> FALSE, calls_after_timeout |-> 0,
   calls_after_failure |-> 0, failed_role |-> "none", prev |-> <<>>,
   outcome_calls |-> 0, classified |-> <<>>, proxy_messages |-> <<>>,
   raw_replies |-> <<>>]

\* simulate called with no seed argument, no seed in the environment, the default retries
\* UsageStats(), lines 24-31 (the cost is left out)
UsageStats ==
  [total_input_tokens |-> 0, total_output_tokens |-> 0, total_tokens |-> 0,
   sut_calls |-> 0, proxy_calls |-> 0]

NoCli == [seed |-> <<>>, env_seed |-> <<>>, max_retries |-> 3]

NoDetected == [persona |-> <<>>, completeness |-> <<>>]

\* an output directory: whether it exists, and the names of its entries
NoDirectory == [exists |-> FALSE, files |-> {}]

NoRetry ==
  [state |-> "idle", attempt |-> 0, calls |-> 0, last_exception |-> <<>>, raised |-> <<>>,
   returned |-> <<>>, outcomes |-> <<>>, run_id |-> <<>>, skip_duplicates |-> TRUE,
   output_dir |-> NoDirectory, mock |-> <<>>]

NoSetup ==
  [max_turns |-> 0, use_controller |-> TRUE, rng_seed_override |-> <<>>,
   question_uncertain |-> 600, tangent_after_field |-> 300, elaboration_two |-> 250,
   pressure_index |-> <<"medium", "medium", "medium">>, entry_context |-> <<>>]

(***************************************************************************)
(* Runtime dials and interaction contract.  A probability is an integer    *)
(* number of thousandths (the dials are rounded to 3 decimals); a number   *)
(* inside a text is the sequence of its characters.                        *)
(***************************************************************************)
Min(a, b) == IF a < b THEN a ELSE b
Max(a, b) == IF a > b THEN a ELSE b

\* a slip: the value passed through as it came
clamp01_Off(x) == x

\* clamp01, on thousandths
clamp01(x) == Max(0, Min(1000, x))

\* level_to_num, in tenths; an unknown level counts as medium
level_to_num(level) ==
  CASE level = "high" -> 10 [] level = "medium" -> 7 [] level = "low" -> 4 [] OTHER -> 7

\* round(n / d) for n >= 0
RoundDiv(n, d) == (2 * n + d) \div (2 * d)

_compute_runtime_dials(s) ==
  LET vals == [i \in 1..3 |-> level_to_num(s.pressure_index[i])]
      sum == vals[1] + vals[2] + vals[3]          \* pressure_avg = sum / 30
      budget == vals[3]                           \* budget_factor = budget / 10
      c1n == Max(0, Min(30000, s.question_uncertain * sum))   \* clamp01(q * avg) * 30
      clar == clamp01(RoundDiv(c1n * (90 + 2 * budget), 3000))
      tang == clamp01(RoundDiv(Max(0, s.tangent_after_field * Min(30, sum)), 30))
  IN  [clarifying_question_prob |-> clar,
       tangent_prob_after_field |-> tang,
       hesitation_insert_prob |-> clamp01(s.elaboration_two)]

DigitChar(d) ==
  CASE d = 0 -> "0" [] d = 1 -> "1" [] d = 2 -> "2" [] d = 3 -> "3" [] d = 4 -> "4"
    [] d = 5 -> "5" [] d = 6 -> "6" [] d = 7 -> "7" [] d = 8 -> "8" [] d = 9 -> "9"

IsDigit(c) == c \in {"0", "1", "2", "3", "4", "5", "6", "7", "8", "9"}

DigitVal(c) == CHOOSE d \in 0..9 : DigitChar(d) = c

\* str(n) for an integer n >= 0
RECURSIVE FormatInt(_)
FormatInt(n) == IF n < 10 THEN <<DigitChar(n)>> ELSE FormatInt(n \div 10) \o <<DigitChar(n % 10)>>

\* a slip: the value written with two decimals, as the controller text does
FormatFloat_TwoDecimals(p) ==
  FormatInt(p \div 1000) \o <<".", DigitChar((p % 1000) \div 100), DigitChar(((p % 1000) \div 10) % 10)>>

\* str(x) for a float x of at most 3 decimals, x = p / 1000
FormatFloat(p) ==
  LET frac == p % 1000
      f1 == DigitChar(frac \div 100)
      f2 == DigitChar((frac \div 10) % 10)
      f3 == DigitChar(frac % 10)
  IN  FormatInt(p \div 1000) \o <<".">> \o
      (IF frac % 100 = 0 THEN <<f1>> ELSE IF frac % 10 = 0 THEN <<f1, f2>> ELSE <<f1, f2, f3>>)

ContractLine(key, value) == [key |-> key, value |-> value]

\* the lines of the contract text; a dial line is "- <name>: <value>"
_build_interaction_contract(dials, seed_val) ==
  << ContractLine("INTERACTION CONTRACT (engine-controlled):", <<>>),
     ContractLine("PRIORITIES:", <<>>),
     ContractLine("1) mandatory_fields", <<>>),
     ContractLine("2) consultative_questions", <<>>),
     ContractLine("3) tangent_handling", <<>>),
     ContractLine("4) closure_policy", <<>>),
     ContractLine("BEHAVIOR DIALS:", <<>>),
     ContractLine("clarifying_question_prob", FormatFloat(dials.clarifying_question_prob)),
     ContractLine("tangent_prob_after_field", FormatFloat(dials.tangent_prob_after_field)),
     ContractLine("hesitation_insert_prob", FormatFloat(dials.hesitation_insert_prob)),
     ContractLine("randomness_seed", FormatInt(seed_val)),
     ContractLine("HESITATION PATTERNS:", <<>>) >>

\* the value of the digits c[from..to] read as an integer
RECURSIVE DigitsValue(_, _, _)
DigitsValue(c, from, to) ==
  IF to < from THEN 0 ELSE 10 * DigitsValue(c, from, to - 1) + DigitVal(c[to])

\* the length of the longest run of digits of c that starts at position from
RECURSIVE DigitRun(_, _)
DigitRun(c, from) ==
  IF from <= Len(c) /\ IsDigit(c[from]) THEN 1 + DigitRun(c, from + 1) ELSE 0

\* float(m.group(1)) for the match of [0-9]*\.?[0-9]+ at the start of c, in thousandths;
\* <<>> when there is no match
ParseFloat(c) ==
  LET n1 == DigitRun(c, 1)
      dot == n1 + 1 <= Len(c) /\ c[n1 + 1] = "."
      n2 == IF dot THEN DigitRun(c, n1 + 2) ELSE 0
      scale == CASE n2 = 1 -> 100 [] n2 = 2 -> 10 [] OTHER -> 1
  IN  IF dot /\ n2 > 0 /\ n2 <= 3
      THEN <<1000 * DigitsValue(c, 1, n1) + scale * DigitsValue(c, n1 + 2, n1 + 1 + n2)>>
      ELSE IF n1 > 0 THEN <<1000 * DigitsValue(c, 1, n1)>>
      ELSE <<>>

\* _extract_float inside _build_turn_controller
_extract_float(contract_text, name, default) ==
  LET hits == {i \in DOMAIN contract_text :
                 contract_text[i].key = name /\ ParseFloat(contract_text[i].value) # <<>>}
  IN  IF hits = {} THEN default
      ELSE ParseFloat(contract_text[CHOOSE i \in hits : \A j \in hits : i <= j].value)[1]

(***************************************************************************)
(* Turn controller                                                         *)
(***************************************************************************)
KindCode(kind) == IF kind = "clarify" THEN 1 ELSE 2

\* _rand_01, in units of 1/10,000,000.  The first 32 bits of SHA-256 of
\* "seed:turn:kind" are replaced by an arithmetic mix of the same three inputs:
\* what the controller needs of the digest is that it is a function of them.
_rand_01(seed_val, turn, kind) ==
  ((seed_val * 7919 + turn * 104729 + KindCode(kind) * 1299709) * 31) % 10000000

\* line 265
tangent_cooldown_turns == 3

\* lines 983-992
field_just_captured(reply) == ContainsAny(Lower(reply), FieldLabelMarkers)

\* a slip: the cooldown counted as always over
cooldown_remaining_Zero(last_tangent, cooldown_turns, turn) == 0

\* line 1009
cooldown_remaining(last_tangent, cooldown_turns, turn) ==
  Max(0, (last_tangent + cooldown_turns) - turn)

BoolText(b) == IF b THEN "true" ELSE "false"
YesNo(b) == IF b THEN "yes" ELSE "no"

_build_turn_controller(turn, reply, captured, last_tangent, cooldown_turns, contract_text, seed_val) ==
  LET clar_prob == _extract_float(contract_text, "clarifying_question_prob", 400)
      tangent_prob == _extract_float(contract_text, "tangent_prob_after_field", 200)
      fjc == field_just_captured(reply)
      s == IF seed_val = <<>> THEN 0 ELSE seed_val[1]        \* seed or 0
      clar_roll == _rand_01(s, turn, "clarify")
      clarifying_allowed == YesNo(clar_roll < clar_prob * 10000)
      cooldown == cooldown_remaining(last_tangent, cooldown_turns, turn)
      tangent_gate == cooldown <= 0 /\ fjc
      tangent_roll == IF tangent_gate THEN _rand_01(s, turn, "tangent") ELSE 10000000
      tangent_decision == tangent_gate /\ tangent_roll < tangent_prob * 10000
  IN  [controller_text |->
         << <<"TURN CONTROLLER:", "- clarifying_allowed:", clarifying_allowed,
              "- tangent_allowed:", YesNo(tangent_decision), "cooldown:">>
            \o FormatInt(cooldown)
            \o <<"field_just_captured:", BoolText(fjc),
                 "- deterministic_mode: binding decisions enforced">> >>,
       tangent_decision |-> tangent_decision,
       clarifying_allowed |-> clarifying_allowed]

\* lines 918-933
FieldOfMarker(m) ==
  CASE m = "job title:" -> "job_title" [] m = "workplace type:" -> "workplace_type"
    [] m = "employment type:" -> "employment_type" [] m = "location:" -> "location"
    [] m = "seniority level:" -> "seniority_level" [] m = "skills:" -> "skills"
    [] m = "responsibilities:" -> "responsibilities" [] m = "salary range:" -> "salary_range"

_update_fields_captured(captured, reply) ==
  captured \cup {FieldOfMarker(m) : m \in {x \in FieldLabelMarkers : Contains(Lower(reply), x)}}

\* lines 935-944
_detect_uncertainty(text) ==
  ContainsAny(Lower(text), {"i'm not sure", "i dont know", "i don't know", "not certain",
                            "unsure", "maybe", "i think", "market's crazy",
                            "am i being too picky"})

\* lines 946-951
\* a slip: the words of the reply never consulted
_detect_tangent_Never(proxy_reply) == FALSE

_detect_tangent(proxy_reply) == ContainsAny(Lower(proxy_reply), {"anyway", "side note", "btw"})

(***************************************************************************)
(* SUT turn: single-question enforcement                                   *)
(***************************************************************************)
DefaultFirstTurn == <<"Hi - how can I help you", Q>>

_enforce_single_question_first_turn(text) ==
  IF text = <<>> THEN DefaultFirstTurn
  ELSE LET qpos == FindQ(text)
           trimmed == Strip(SubSeq(text, 1, qpos))
       IN  IF qpos = 0 THEN DefaultFirstTurn
           ELSE IF TextLen(trimmed) > 500 THEN DefaultFirstTurn
           ELSE trimmed

\* a slip: later messages returned as they came
_enforce_single_question_all_turns_Off(text) == text

_enforce_single_question_all_turns(text) ==
  IF text = <<>> THEN text
  ELSE LET qpos == FindQ(text)
       IN  IF qpos = 0 THEN text
           ELSE IF \E j \in (qpos + 1)..Len(text) : text[j] = Q
           THEN Strip(SubSeq(text, 1, qpos))
           ELSE text

\* a slip: the test of line 549 inverted, the summaries trimmed and the rest left alone
EnforceSutReply_SummariesOnly(turn, raw) ==
  IF ~check_sut_provided_summary(raw) THEN raw
  ELSE IF turn = 0 THEN _enforce_single_question_first_turn(raw)
  ELSE _enforce_single_question_all_turns(raw)

\* lines 547-553: what _handle_sut_turn returns for the raw reply of the SUT
EnforceSutReply(turn, raw) ==
  IF check_sut_provided_summary(raw) THEN raw
  ELSE IF turn = 0 THEN _enforce_single_question_first_turn(raw)
  ELSE _enforce_single_question_all_turns(raw)

(***************************************************************************)
(* Proxy turn: mechanical enforcement of the controller's decisions        *)
(***************************************************************************)
\* the atom holds "." or "!"
HasStop(a) ==
  a \in {"Full-time and remote at $120,000.", "Looks good.", "Anyway.",
         "I can help you with that.", "We want to grow the team.",
         "It is remote.", "It is full-time.", "Skills: Python.",
         "By the way, did you know... Anyway,"}

\* the atom, followed by "?", is matched by one of the clarifying patterns (IGNORECASE)
IsClarifyingQuestion(a) == LowerAtom(a) \in {"what do you think", "can you clarify that"}

\* re.sub(r'\s*\.\s*$', '', ...) after re.sub(r'\s*,\s*$', '', ...) on the last atom
DropFinalPunctuation(a) ==
  CASE a = "Full-time and remote at $120,000." -> "Full-time and remote at $120,000"
    [] a = "Looks good." -> "Looks good"
    [] a = "Anyway." -> "Anyway"
    [] OTHER -> a

\* re.sub(r'\?[^.!]*\?', '?', text)
RECURSIVE CollapseQuestions(_)
CollapseQuestions(text) ==
  IF text = <<>> THEN <<>>
  ELSE IF Head(text) # Q THEN <<Head(text)>> \o CollapseQuestions(Tail(text))
  ELSE LET ends == {j \in 2..Len(text) :
                      text[j] = Q /\ \A k \in 2..(j - 1) : ~HasStop(text[k])}
       IN  IF ends = {} THEN <<Q>> \o CollapseQuestions(Tail(text))
           ELSE LET j == CHOOSE x \in ends : \A y \in ends : y <= x
                IN  <<Q>> \o CollapseQuestions(SubSeq(text, j + 1, Len(text)))

\* the clarifying patterns removed, each with its "?"
RECURSIVE RemoveClarifying(_)
RemoveClarifying(text) ==
  IF text = <<>> THEN <<>>
  ELSE IF Len(text) >= 2 /\ IsClarifyingQuestion(text[1]) /\ text[2] = Q
  THEN RemoveClarifying(SubSeq(text, 3, Len(text)))
  ELSE <<Head(text)>> \o RemoveClarifying(Tail(text))

\* lines 602-695: the filter applied when clarifying is not allowed
StripClarifying(text) ==
  LET t1 == RemoveClarifying(CollapseQuestions(text))
      t2 == RStrip(t1)
      t3 == IF t2 # <<>> /\ t2[Len(t2)] = Q THEN RStrip(SubSeq(t2, 1, Len(t2) - 1)) ELSE t1
      t4 == Strip(t3)
  IN  IF t4 = <<>> THEN <<>>
      ELSE [t4 EXCEPT ![Len(t4)] = DropFinalPunctuation(t4[Len(t4)])]

ClarifyPhrase == <<"Can you clarify that", Q>>
TangentPhrase == <<"By the way, did you know... Anyway,", "What were we discussing", Q>>

\* line 701: scenario["turn_controller"].find("tangent_allowed: yes") != -1
\* a slip: the decision read from the clarifying line of the controller block
TangentAllowedInText_ClarifyingLine(controller_text) ==
  \E i \in 1..(Len(controller_text) - 1) :
     controller_text[i] = "- clarifying_allowed:" /\ controller_text[i + 1] = "yes"

TangentAllowedInText(controller_text) ==
  \E i \in 1..(Len(controller_text) - 1) :
     controller_text[i] = "- tangent_allowed:" /\ controller_text[i + 1] = "yes"

\* lines 599-704: what _handle_proxy_turn returns for the raw reply of the proxy
EnforceProxyReply(raw, reply, use_controller, ctl) ==
  IF ~use_controller THEN raw
  ELSE LET r1 == IF ctl.clarifying_allowed = "no" THEN StripClarifying(raw) ELSE raw
           r2 == IF ctl.clarifying_allowed = "yes" /\ _detect_uncertainty(reply)
                 THEN r1 \o ClarifyPhrase ELSE r1
       IN  IF TangentAllowedInText(ctl.controller_text[1]) THEN r2 \o TangentPhrase ELSE r2

(***************************************************************************)
(* run_simulation                                                          *)
(*                                                                         *)
(* pc: "start" -> "loop" -> "sut" -> "proxy" -> "loop" ... -> "after_loop" *)
(* -> "returned".  The clock is the time since simulation_start_time; it   *)
(* never decreases, and only a call to the SUT or to the proxy takes time. *)
(* It is kept up to the timeout: beyond it only ">= timeout" is ever asked.*)
(***************************************************************************)
MaxTurns == 4

\* personas and scenarios the runs are made with
BaseSetup == [NoSetup EXCEPT !.max_turns = MaxTurns]

Setups ==
  { [BaseSetup EXCEPT !.rng_seed_override = <<42>>, !.tangent_after_field = 900,
                      !.pressure_index = <<"high", "high", "high">>,
                      !.entry_context = <<"We want to grow the team.">>],
    BaseSetup,
    [BaseSetup EXCEPT !.use_controller = FALSE, !.rng_seed_override = <<42>>,
                      !.entry_context = <<WS>>],
    [BaseSetup EXCEPT !.max_turns = 0] }

\* values of int(uuid.uuid4().hex[:8], 16)
GeneratedSeeds == {7, 2024}

\* seconds a call to the SUT or to the proxy takes
CallDurations == {0, DefaultTimeout}

\* raw replies of the SUT
SutReplies(turn) ==
  IF turn = 0
  THEN { <<"What brings you here", Q>>,
         <<>>,
         <<LongGreeting, Q>>,
         <<WS, "Job Title: Backend Engineer.", "And which city", Q, "What brings you here", Q>> }
  ELSE { <<WS, "Job Title: Backend Engineer.", "And which city", Q, "What brings you here", Q>>,
         <<"Here's the role.", "And which city", Q, "Should I lock these in", Q>>,
         <<"I don't know.">> }

\* raw replies of the persona proxy
ProxyReplies == { <<"Looks good.">>, <<"Anyway.", "What do you think", Q>> }

\* str(e) of the exception a failed call raises
ExceptionMessages == { <<"Request timeout.">>, <<"No route to sut-gateway.">> }

\* f"{turn_idx + 1}:" inside the recorded error string
TurnLabel(n) ==
  CASE n = 1 -> "1:" [] n = 2 -> "2:" [] n = 3 -> "3:" [] n = 4 -> "4:" [] n = 5 -> "5:"
    [] OTHER -> "6:"

Advance(t, d) == Min(DefaultTimeout, t + d)

Init ==
  /\ pc = "start"
  /\ setup \in Setups
  /\ seed = <<>>
  /\ contract = <<>>
  /\ turn_idx = 0
  /\ turns = <<>>
  /\ messages = <<>>
  /\ api_errors = <<>>
  /\ sut_provided_summary = FALSE
  /\ fields_captured = {}
  /\ last_tangent_turn = -10
  /\ sut_reply = <<>>
  /\ controller = NoController
  /\ clock = 0
  /\ elapsed_time = 0
  /\ proxy_confirmed = FALSE
  /\ timeout_reached = FALSE
  /\ final_outcome = <<>>
  /\ hist = NoHist
  /\ run_dials = <<>>
  /\ detected = NoDetected
  /\ cli = NoCli
  /\ retry = NoRetry
  /\ usage_stats = UsageStats
  /\ run_results = <<>>
  /\ loaded = <<>>
  /\ request = <<>>
  /\ extracted = <<>>

\* a slip: the seed override of the scenario not applied
RunStart_NoOverride ==
  /\ pc = "start"
  /\ \E generated \in GeneratedSeeds :
       /\ seed' = <<generated>>
       /\ run_dials' = <<_compute_runtime_dials(setup)>>
       /\ contract' = _build_interaction_contract(_compute_runtime_dials(setup), generated)
  /\ turn_idx' = 0
  /\ turns' = <<>>
  /\ messages' = <<>>
  /\ api_errors' = <<>>
  /\ sut_provided_summary' = FALSE
  /\ fields_captured' = {}
  /\ last_tangent_turn' = -10
  /\ sut_reply' = <<>>
  /\ controller' = NoController
  /\ clock' = 0
  /\ elapsed_time' = 0
  /\ pc' = "loop"
  /\ UNCHANGED <<detected, cli, retry, setup, proxy_confirmed, timeout_reached, final_outcome, hist,
                 usage_stats, run_results, loaded, request, extracted>>

\* lines 219-267: dials, seed, contract, and the locals of the turn loop
RunStart ==
  /\ pc = "start"
  /\ \E generated \in GeneratedSeeds :
       LET s == IF setup.rng_seed_override # <<>> THEN setup.rng_seed_override[1] ELSE generated
           computed == _compute_runtime_dials(setup)
       IN  /\ seed' = <<s>>
           /\ run_dials' = <<computed>>
           /\ contract' = _build_interaction_contract(computed, s)
  /\ turn_idx' = 0
  /\ turns' = <<>>
  /\ messages' = <<>>
  /\ api_errors' = <<>>
  /\ sut_provided_summary' = FALSE
  /\ fields_captured' = {}
  /\ last_tangent_turn' = -10
  /\ sut_reply' = <<>>
  /\ controller' = NoController
  /\ clock' = 0
  /\ elapsed_time' = 0
  /\ pc' = "loop"
  /\ UNCHANGED <<detected, cli, retry, setup, proxy_confirmed, timeout_reached, final_outcome, hist,
                 usage_stats, run_results, loaded, request, extracted>>

\* the usage a client returns with a reply (_extract_usage of the API response)
SutUsages == {[input_tokens |-> 9, output_tokens |-> 3, total_tokens |-> 12]}

ProxyUsages == {[input_tokens |-> 5, output_tokens |-> 2, total_tokens |-> 7]}

\* lines 496-514, on the counters of the engine
_update_usage_stats(stats, usage, client_type) ==
  [stats EXCEPT !.total_input_tokens = @ + usage.input_tokens,
                !.total_output_tokens = @ + usage.output_tokens,
                !.total_tokens = @ + usage.total_tokens,
                !.sut_calls = @ + (IF client_type = "sut" THEN 1 ELSE 0),
                !.proxy_calls = @ + (IF client_type = "proxy" THEN 1 ELSE 0)]

\* lines 415-434: the results record, as far as the turn count and the usage go
RunResults(turn_list, stats) ==
  [total_turns |-> Len(turn_list),
   usage_stats |-> [total_tokens |-> stats.total_tokens,
                    input_tokens |-> stats.total_input_tokens,
                    output_tokens |-> stats.total_output_tokens,
                    sut_calls |-> stats.sut_calls,
                    proxy_calls |-> stats.proxy_calls]]

\* a slip: the run returns from the used-up loop without the analysis
LoopExhausted_NoAnalysis ==
  /\ pc = "loop"
  /\ turn_idx >= setup.max_turns
  /\ pc' = "returned"
  /\ hist' = [hist EXCEPT !.exit = "exhausted"]
  /\ run_results' = <<RunResults(turns, usage_stats)>>
  /\ UNCHANGED <<run_dials, detected, cli, retry, setup, seed, contract, turn_idx, turns, messages, api_errors,
                 sut_provided_summary, fields_captured, last_tangent_turn, sut_reply,
                 controller, clock, elapsed_time, proxy_confirmed, timeout_reached,
                 final_outcome, usage_stats, loaded, request, extracted>>

\* line 268: range(max_turns) is used up
LoopExhausted ==
  /\ pc = "loop"
  /\ turn_idx >= setup.max_turns
  /\ pc' = "after_loop"
  /\ hist' = [hist EXCEPT !.exit = "exhausted"]
  /\ UNCHANGED <<run_dials, detected, cli, retry, setup, seed, contract, turn_idx, turns, messages, api_errors,
                 sut_provided_summary, fields_captured, last_tangent_turn, sut_reply,
                 controller, clock, elapsed_time, proxy_confirmed, timeout_reached,
                 final_outcome,
                 usage_stats, run_results, loaded, request, extracted>>

\* a slip: the loop goes on after the timeout has been seen
LoopTimeoutBreak_NoBreak ==
  /\ pc = "loop"
  /\ turn_idx < setup.max_turns
  /\ clock >= DefaultTimeout
  /\ elapsed_time' = clock
  /\ pc' = "sut"
  /\ hist' = [hist EXCEPT !.timeout_seen = TRUE]
  /\ UNCHANGED <<run_dials, detected, cli, retry, setup, seed, contract, turn_idx, turns, messages, api_errors,
                 sut_provided_summary, fields_captured, last_tangent_turn, sut_reply,
                 controller, clock, proxy_confirmed, timeout_reached, final_outcome,
                 usage_stats, run_results, loaded, request, extracted>>

\* lines 270-273: the timeout is seen at the top of an iteration
LoopTimeoutBreak ==
  /\ pc = "loop"
  /\ turn_idx < setup.max_turns
  /\ clock >= DefaultTimeout
  /\ elapsed_time' = clock
  /\ pc' = "after_loop"
  /\ hist' = [hist EXCEPT !.timeout_seen = TRUE, !.exit = "timeout"]
  /\ UNCHANGED <<run_dials, detected, cli, retry, setup, seed, contract, turn_idx, turns, messages, api_errors,
                 sut_provided_summary, fields_captured, last_tangent_turn, sut_reply,
                 controller, clock, proxy_confirmed, timeout_reached, final_outcome,
                 usage_stats, run_results, loaded, request, extracted>>

\* lines 270-275: the iteration goes on
\* a slip: one iteration more than range(max_turns)
LoopEnter_OneMore ==
  /\ pc = "loop"
  /\ turn_idx <= setup.max_turns
  /\ clock < DefaultTimeout
  /\ elapsed_time' = clock
  /\ pc' = "sut"
  /\ UNCHANGED <<run_dials, detected, cli, retry, setup, seed, contract, turn_idx, turns, messages, api_errors,
                 sut_provided_summary, fields_captured, last_tangent_turn, sut_reply,
                 controller, clock, proxy_confirmed, timeout_reached, final_outcome, hist,
                 usage_stats, run_results, loaded, request, extracted>>

LoopEnter ==
  /\ pc = "loop"
  /\ turn_idx < setup.max_turns
  /\ clock < DefaultTimeout
  /\ elapsed_time' = clock
  /\ pc' = "sut"
  /\ UNCHANGED <<run_dials, detected, cli, retry, setup, seed, contract, turn_idx, turns, messages, api_errors,
                 sut_provided_summary, fields_captured, last_tangent_turn, sut_reply,
                 controller, clock, proxy_confirmed, timeout_reached, final_outcome, hist,
                 usage_stats, run_results, loaded, request, extracted>>

\* what a call adds to the history of the run
CallMade(h, role) ==
  [h EXCEPT !.sut_calls = @ + (IF role = "sut" THEN 1 ELSE 0),
            !.proxy_calls = @ + (IF role = "proxy" THEN 1 ELSE 0),
            !.calls_after_timeout = @ + (IF h.timeout_seen THEN 1 ELSE 0),
            !.calls_after_failure = @ + (IF h.failed_calls > 0 THEN 1 ELSE 0)]

\* lines 278-317: the SUT answers; its turn is appended and the controller built
\* a slip: the flag latched, once a summary always a summary
SutTurnOk_Latched ==
  /\ pc = "sut"
  /\ \E raw \in SutReplies(turn_idx), d \in CallDurations, sut_usage \in SutUsages :
       LET reply == EnforceSutReply(turn_idx, raw)
           captured == _update_fields_captured(fields_captured, reply)
           ctl == IF setup.use_controller
                  THEN _build_turn_controller(turn_idx, reply, captured, last_tangent_turn,
                                              tangent_cooldown_turns, contract, seed)
                  ELSE NoController
       IN  /\ clock' = Advance(clock, d)
           /\ sut_reply' = reply
           /\ turns' = Append(turns, Turn("system", reply, <<>>))
           /\ messages' = Append(messages, [role |-> "assistant", content |-> reply])
           /\ sut_provided_summary' =
                (sut_provided_summary \/ check_sut_provided_summary(reply))
           /\ fields_captured' = captured
           /\ controller' = ctl
           /\ usage_stats' = _update_usage_stats(usage_stats, sut_usage, "sut")
           /\ hist' = [CallMade(hist, "sut") EXCEPT
                         !.decisions = Append(@, [turn |-> turn_idx,
                                                  clarifying_allowed |-> ctl.clarifying_allowed,
                                                  tangent_decision |-> ctl.tangent_decision,
                                                  field_just_captured |-> field_just_captured(reply),
                                                  last_tangent_turn |-> last_tangent_turn])]
  /\ pc' = "proxy"
  /\ UNCHANGED <<run_dials, detected, cli, retry, setup, seed, contract, turn_idx, api_errors, last_tangent_turn, elapsed_time,
                 proxy_confirmed, timeout_reached, final_outcome,
                 run_results, loaded, request, extracted>>

SutTurnOk ==
  /\ pc = "sut"
  /\ \E raw \in SutReplies(turn_idx), d \in CallDurations, sut_usage \in SutUsages :
       LET reply == EnforceSutReply(turn_idx, raw)
           captured == _update_fields_captured(fields_captured, reply)
           ctl == IF setup.use_controller
                  THEN _build_turn_controller(turn_idx, reply, captured, last_tangent_turn,
                                              tangent_cooldown_turns, contract, seed)
                  ELSE NoController
       IN  /\ clock' = Advance(clock, d)
           /\ sut_reply' = reply
           /\ turns' = Append(turns, Turn("system", reply, <<>>))
           /\ messages' = Append(messages, [role |-> "assistant", content |-> reply])
           /\ sut_provided_summary' = check_sut_provided_summary(reply)
           /\ fields_captured' = captured
           /\ controller' = ctl
           /\ usage_stats' = _update_usage_stats(usage_stats, sut_usage, "sut")
           /\ hist' = [CallMade(hist, "sut") EXCEPT
                         !.decisions = Append(@, [turn |-> turn_idx,
                                                  clarifying_allowed |-> ctl.clarifying_allowed,
                                                  tangent_decision |-> ctl.tangent_decision,
                                                  field_just_captured |-> field_just_captured(reply),
                                                  last_tangent_turn |-> last_tangent_turn])]
  /\ pc' = "proxy"
  /\ UNCHANGED <<run_dials, detected, cli, retry, setup, seed, contract, turn_idx, api_errors, last_tangent_turn, elapsed_time,
                 proxy_confirmed, timeout_reached, final_outcome,
                 run_results, loaded, request, extracted>>

\* is_transient_error, lines 111-133
transient_indicators ==
  {"429", "500", "502", "503", "504", "timeout", "connection error", "connection refused",
   "connection reset", "network error", "temporary failure", "service unavailable",
   "rate limit", "throttled"}

is_transient_error(exception) == ContainsAny(Lower(exception), transient_indicators)

\* a slip: every error is retried while attempts are left
ShouldRetry_AnyError(attempt, max_retries, e) == attempt < max_retries

\* line 246
ShouldRetry(attempt, max_retries, e) == attempt < max_retries /\ is_transient_error(e)

\* what one call of engine.run_simulation gives: a results record or an exception
AttemptOutcome(kind, results, error) == [kind |-> kind, results |-> results, error |-> error]

\* simulate.py lines 243-257: the handler of the exception e that left the try block of a
\* pass of the wrapper r
Caught(r, max_retries, e) ==
  LET called == [r EXCEPT !.outcomes = Append(@, AttemptOutcome("error", {}, e))]
  IN  IF ShouldRetry(r.attempt, max_retries, e)
      THEN [called EXCEPT !.last_exception = <<e>>, !.attempt = @ + 1]
      ELSE [called EXCEPT !.last_exception = <<e>>, !.state = "raised", !.raised = <<e>>]

\* a slip: the exception of a failed SUT call leaves run_simulation
SutTurnFails_Escapes ==
  /\ pc = "sut"
  /\ \E e \in ExceptionMessages, d \in CallDurations :
       /\ clock' = Advance(clock, d)
       /\ retry' = Caught(retry, cli.max_retries, e)
  /\ hist' = [CallMade(hist, "sut") EXCEPT !.failed_calls = @ + 1, !.failed_role = "sut",
                                           !.exit = "sut_error"]
  /\ pc' = "retry"
  /\ UNCHANGED <<run_dials, detected, cli, setup, seed, contract, turn_idx, turns, messages, api_errors,
                 sut_provided_summary, fields_captured, last_tangent_turn, sut_reply, controller,
                 elapsed_time, proxy_confirmed, timeout_reached, final_outcome,
                 usage_stats, run_results, loaded, request, extracted>>

\* a slip: the loop goes on after a failed SUT call
SutTurnFails_NoBreak ==
  /\ pc = "sut"
  /\ \E e \in ExceptionMessages, d \in CallDurations :
       /\ clock' = Advance(clock, d)
       /\ api_errors' =
            Append(api_errors, <<"SUT API error at turn", TurnLabel(turn_idx + 1)>> \o e)
  /\ hist' = [CallMade(hist, "sut") EXCEPT !.failed_calls = @ + 1, !.failed_role = "sut"]
  /\ turn_idx' = turn_idx + 1
  /\ pc' = "loop"
  /\ UNCHANGED <<run_dials, detected, cli, retry, setup, seed, contract, turns, messages, sut_provided_summary,
                 fields_captured, last_tangent_turn, sut_reply, controller, elapsed_time,
                 proxy_confirmed, timeout_reached, final_outcome,
                 usage_stats, run_results, loaded, request, extracted>>

\* lines 278-285: the SUT call raises
SutTurnFails ==
  /\ pc = "sut"
  /\ \E e \in ExceptionMessages, d \in CallDurations :
       /\ clock' = Advance(clock, d)
       /\ api_errors' =
            Append(api_errors, <<"SUT API error at turn", TurnLabel(turn_idx + 1)>> \o e)
  /\ hist' = [CallMade(hist, "sut") EXCEPT !.failed_calls = @ + 1, !.failed_role = "sut",
                                           !.exit = "sut_error"]
  /\ pc' = "after_loop"
  /\ UNCHANGED <<run_dials, detected, cli, retry, setup, seed, contract, turn_idx, turns, messages, sut_provided_summary,
                 fields_captured, last_tangent_turn, sut_reply, controller, elapsed_time,
                 proxy_confirmed, timeout_reached, final_outcome,
                 usage_stats, run_results, loaded, request, extracted>>

\* lines 320-351: the proxy answers; its turn is appended, then the loop ends on a
\* confirmed summary or goes to its next iteration
\* [m for m in messages if m.get("role") in {"assistant", "user"}]
_sanitize_messages_for_proxy(msgs) ==
  SelectSeq(msgs, LAMBDA m : m.role \in {"assistant", "user"})

\* a slip: the entry context never replaces the history
MessagesForProxy_HistoryOnly(idx, msgs, scenario) == _sanitize_messages_for_proxy(msgs)

\* the list _handle_proxy_turn hands to send_persona_message
MessagesForProxy(idx, msgs, scenario) ==
  IF idx = 0 /\ Strip(scenario.entry_context) # <<>>
  THEN <<[role |-> "user", content |-> Strip(scenario.entry_context)]>>
  ELSE _sanitize_messages_for_proxy(msgs)

PersonaSystemPrompt == <<"persona system prompt">>

\* payload["messages"] of send_persona_message
ProxyPayloadMessages(msgs) ==
  <<[role |-> "system", content |-> PersonaSystemPrompt]>>
  \o SelectSeq(msgs, LAMBDA m : m.role # "system")

\* the call of send_persona_message at turn idx, as the history records it
ProxyCall(idx, msgs, scenario) ==
  [turn_idx |-> idx,
   messages |-> MessagesForProxy(idx, msgs, scenario),
   payload |-> ProxyPayloadMessages(MessagesForProxy(idx, msgs, scenario))]

ProxyTurnOk ==
  /\ pc = "proxy"
  /\ \E raw \in ProxyReplies, d \in CallDurations, proxy_usage \in ProxyUsages :
       LET proxy_reply == EnforceProxyReply(raw, sut_reply, setup.use_controller, controller)
           completed == sut_provided_summary /\ check_proxy_confirmation(proxy_reply)
       IN  /\ clock' = Advance(clock, d)
           /\ turns' = Append(turns, Turn("user", proxy_reply, controller.controller_text))
           /\ messages' = Append(messages, [role |-> "user", content |-> proxy_reply])
           /\ usage_stats' = _update_usage_stats(usage_stats, proxy_usage, "proxy")
           /\ IF completed
              THEN /\ pc' = "after_loop"
                   /\ hist' = [CallMade(hist, "proxy") EXCEPT
                                 !.exit = "success",
                                 !.raw_replies = Append(@, raw),
                                 !.proxy_messages =
                                    Append(@, ProxyCall(turn_idx, messages, setup))]
                   /\ UNCHANGED <<turn_idx, last_tangent_turn>>
              ELSE /\ pc' = "loop"
                   /\ hist' = [CallMade(hist, "proxy") EXCEPT
                                 !.raw_replies = Append(@, raw),
                                 !.proxy_messages =
                                    Append(@, ProxyCall(turn_idx, messages, setup))]
                   /\ turn_idx' = turn_idx + 1
                   /\ last_tangent_turn' =
                        IF controller.tangent_decision \/ _detect_tangent(proxy_reply)
                        THEN turn_idx ELSE last_tangent_turn
  /\ UNCHANGED <<run_dials, detected, cli, retry, setup, seed, contract, api_errors, sut_provided_summary, fields_captured,
                 sut_reply, controller, elapsed_time, proxy_confirmed, timeout_reached,
                 final_outcome,
                 run_results, loaded, request, extracted>>

\* a slip: the loop goes on after a failed proxy call
ProxyTurnFails_NoBreak ==
  /\ pc = "proxy"
  /\ \E e \in ExceptionMessages, d \in CallDurations :
       /\ clock' = Advance(clock, d)
       /\ api_errors' =
            Append(api_errors, <<"Proxy API error at turn", TurnLabel(turn_idx + 1)>> \o e)
  /\ hist' = [CallMade(hist, "proxy") EXCEPT
                !.failed_calls = @ + 1, !.failed_role = "proxy",
                !.proxy_messages = Append(@, ProxyCall(turn_idx, messages, setup))]
  /\ turn_idx' = turn_idx + 1
  /\ pc' = "loop"
  /\ UNCHANGED <<run_dials, detected, cli, retry, setup, seed, contract, turns, messages, sut_provided_summary,
                 fields_captured, last_tangent_turn, sut_reply, controller, elapsed_time,
                 proxy_confirmed, timeout_reached, final_outcome,
                 usage_stats, run_results, loaded, request, extracted>>

\* lines 320-327: the proxy call raises
ProxyTurnFails ==
  /\ pc = "proxy"
  /\ \E e \in ExceptionMessages, d \in CallDurations :
       /\ clock' = Advance(clock, d)
       /\ api_errors' =
            Append(api_errors, <<"Proxy API error at turn", TurnLabel(turn_idx + 1)>> \o e)
  /\ hist' = [CallMade(hist, "proxy") EXCEPT
                !.failed_calls = @ + 1, !.failed_role = "proxy", !.exit = "proxy_error",
                !.proxy_messages = Append(@, ProxyCall(turn_idx, messages, setup))]
  /\ pc' = "after_loop"
  /\ UNCHANGED <<run_dials, detected, cli, retry, setup, seed, contract, turn_idx, turns, messages, sut_provided_summary,
                 fields_captured, last_tangent_turn, sut_reply, controller, elapsed_time,
                 proxy_confirmed, timeout_reached, final_outcome,
                 usage_stats, run_results, loaded, request, extracted>>

\* a slip: the elapsed time read at the top of the last iteration taken as the final one
Analyze_StaleElapsed ==
  /\ pc = "after_loop"
  /\ LET final_elapsed_time == elapsed_time
         reached == final_elapsed_time >= DefaultTimeout
         confirmed == /\ turns # <<>>
                      /\ turns[Len(turns)].role = "user"
                      /\ check_proxy_confirmation(turns[Len(turns)].content)
     IN  /\ timeout_reached' = reached
         /\ proxy_confirmed' = confirmed
         /\ final_outcome' =
              <<determine_conversation_outcome(turns, sut_provided_summary, confirmed, reached,
                                               api_errors, final_elapsed_time, DefaultTimeout)>>
         /\ hist' = [hist EXCEPT !.outcome_calls = @ + 1,
                                !.classified = <<[turns |-> turns, timeout_reached |-> reached,
                                                  elapsed_time |-> final_elapsed_time]>>]
  /\ run_results' = <<RunResults(turns, usage_stats)>>
  /\ pc' = "returned"
  /\ UNCHANGED <<run_dials, detected, cli, retry, setup, seed, contract, turn_idx, turns, messages, api_errors,
                 sut_provided_summary, fields_captured, last_tangent_turn, sut_reply,
                 controller, clock, elapsed_time,
                 usage_stats, loaded, request, extracted>>

\* lines 353-377: final elapsed time, proxy confirmation and the outcome
Analyze ==
  /\ pc = "after_loop"
  /\ LET final_elapsed_time == clock
         reached == final_elapsed_time >= DefaultTimeout
         confirmed == /\ turns # <<>>
                      /\ turns[Len(turns)].role = "user"
                      /\ check_proxy_confirmation(turns[Len(turns)].content)
     IN  /\ timeout_reached' = reached
         /\ proxy_confirmed' = confirmed
         /\ final_outcome' =
              <<determine_conversation_outcome(turns, sut_provided_summary, confirmed, reached,
                                               api_errors, final_elapsed_time, DefaultTimeout)>>
         /\ hist' = [hist EXCEPT !.outcome_calls = @ + 1,
                                !.classified = <<[turns |-> turns, timeout_reached |-> reached,
                                                  elapsed_time |-> final_elapsed_time]>>]
  /\ run_results' = <<RunResults(turns, usage_stats)>>
  /\ pc' = "returned"
  /\ UNCHANGED <<run_dials, detected, cli, retry, setup, seed, contract, turn_idx, turns, messages, api_errors,
                 sut_provided_summary, fields_captured, last_tangent_turn, sut_reply,
                 controller, clock, elapsed_time,
                 usage_stats, loaded, request, extracted>>

Next ==
  \/ RunStart
  \/ LoopExhausted
  \/ LoopTimeoutBreak
  \/ LoopEnter
  \/ SutTurnOk
  \/ SutTurnFails
  \/ ProxyTurnOk
  \/ ProxyTurnFails
  \/ Analyze

Spec == Init /\ [][Next]_vars

(***************************************************************************)
(* The turn loop with every call returning or raising: each step that is   *)
(* enabled is eventually taken                                             *)
(***************************************************************************)
FairTurns == 2

InitLoop ==
  /\ pc = "start"
  /\ setup \in {[s EXCEPT !.max_turns = n] : s \in Setups, n \in 0..FairTurns}
  /\ seed = <<>>
  /\ contract = <<>>
  /\ turn_idx = 0
  /\ turns = <<>>
  /\ messages = <<>>
  /\ api_errors = <<>>
  /\ sut_provided_summary = FALSE
  /\ fields_captured = {}
  /\ last_tangent_turn = -10
  /\ sut_reply = <<>>
  /\ controller = NoController
  /\ clock = 0
  /\ elapsed_time = 0
  /\ proxy_confirmed = FALSE
  /\ timeout_reached = FALSE
  /\ final_outcome = <<>>
  /\ hist = NoHist
  /\ run_dials = <<>>
  /\ detected = NoDetected
  /\ cli = NoCli
  /\ retry = NoRetry
  /\ usage_stats = UsageStats
  /\ run_results = <<>>
  /\ loaded = <<>>
  /\ request = <<>>
  /\ extracted = <<>>

\* a step of the run: every action of Next moves pc, and one of them is enabled wherever pc
\* is not "returned" (the code between two calls runs on, and a call returns or raises)
RunPositions == {"start", "loop", "sut", "proxy", "after_loop", "returned"}

RunStep == pc # "returned" /\ pc' \in RunPositions \ {pc}

SpecLoopFair == InitLoop /\ [][Next]_vars /\ WF_pc(RunStep)

(***************************************************************************)
(* Two runs of run_simulation, one after the other, with the same persona  *)
(* and scenario.  The second run keeps what the controller decided in the  *)
(* first.                                                                  *)
(***************************************************************************)
RerunTurns == 2

InitRerun ==
  /\ pc = "start"
  /\ setup \in {s \in {[x EXCEPT !.max_turns = RerunTurns] : x \in Setups} :
                  s.use_controller /\ s.rng_seed_override # <<>>}
  /\ seed = <<>>
  /\ contract = <<>>
  /\ turn_idx = 0
  /\ turns = <<>>
  /\ messages = <<>>
  /\ api_errors = <<>>
  /\ sut_provided_summary = FALSE
  /\ fields_captured = {}
  /\ last_tangent_turn = -10
  /\ sut_reply = <<>>
  /\ controller = NoController
  /\ clock = 0
  /\ elapsed_time = 0
  /\ proxy_confirmed = FALSE
  /\ timeout_reached = FALSE
  /\ final_outcome = <<>>
  /\ hist = NoHist
  /\ run_dials = <<>>
  /\ detected = NoDetected
  /\ cli = NoCli
  /\ retry = NoRetry
  /\ usage_stats = UsageStats
  /\ run_results = <<>>
  /\ loaded = <<>>
  /\ request = <<>>
  /\ extracted = <<>>

\* run_simulation has returned and is called again
Restart ==
  /\ pc = "returned"
  /\ hist.run = 1
  /\ pc' = "start"
  /\ hist' = [NoHist EXCEPT !.run = 2, !.prev = hist.decisions]
  /\ seed' = <<>>
  /\ contract' = <<>>
  /\ turn_idx' = 0
  /\ turns' = <<>>
  /\ messages' = <<>>
  /\ api_errors' = <<>>
  /\ sut_provided_summary' = FALSE
  /\ fields_captured' = {}
  /\ last_tangent_turn' = -10
  /\ sut_reply' = <<>>
  /\ controller' = NoController
  /\ clock' = 0
  /\ elapsed_time' = 0
  /\ proxy_confirmed' = FALSE
  /\ timeout_reached' = FALSE
  /\ final_outcome' = <<>>
  /\ run_dials' = <<>>
  /\ run_results' = <<>>
  /\ UNCHANGED <<detected, cli, retry, setup,
                 usage_stats, loaded, request, extracted>>

NextRerun == Next \/ Restart

SpecRerun == InitRerun /\ [][NextRerun]_vars

(***************************************************************************)
(* The classifier called directly: determine_conversation_outcome is       *)
(* public, any turn list, flags and error list may be passed.              *)
(***************************************************************************)
MaxOutcomeTurns == 4
MaxApiErrors == 2

OutcomeSystemContents ==
  << <<"What brings you here", Q>>,
     <<"I don't know.", "And which city", Q, "What brings you here", Q>> >>

OutcomeUserContents ==
  << <<"Full-time and remote at $120,000.">>,
     <<"I can help you with that.", Q, "And which city", Q>> >>

\* the turn lists of at most n turns that alternate system and user, system first
OutcomeTurnLists(n) ==
  UNION { { [i \in 1..k |-> IF i % 2 = 1
                            THEN Turn("system", OutcomeSystemContents[pick[i]], <<>>)
                            ELSE Turn("user", OutcomeUserContents[pick[i]], <<>>)] :
            pick \in [1..k -> {1, 2}] } : k \in 0..n }

OutcomeErrorStrings ==
  { <<"SUT API error at turn", "1:", "Request timeout.">>,
    <<"Proxy API error at turn", "1:", "Request timeout.">>,
    <<"Proxy API error at turn", "2:", "No route to sut-gateway.">>,
    <<"Request timeout.">> }

SeqsUpTo(S, n) == UNION {[1..k -> S] : k \in 0..n}

InitOutcome ==
  /\ pc = "classify"
  /\ setup = NoSetup
  /\ seed = <<>>
  /\ contract = <<>>
  /\ turn_idx = 0
  /\ turns \in OutcomeTurnLists(MaxOutcomeTurns)
  /\ messages = <<>>
  /\ api_errors \in SeqsUpTo(OutcomeErrorStrings, MaxApiErrors)
  /\ sut_provided_summary \in BOOLEAN
  /\ fields_captured = {}
  /\ last_tangent_turn = -10
  /\ sut_reply = <<>>
  /\ controller = NoController
  /\ clock = 0
  /\ elapsed_time = 0
  /\ proxy_confirmed \in BOOLEAN
  /\ timeout_reached \in BOOLEAN
  /\ final_outcome = <<>>
  /\ hist = NoHist
  /\ run_dials = <<>>
  /\ detected = NoDetected
  /\ cli = NoCli
  /\ retry = NoRetry
  /\ usage_stats = UsageStats
  /\ run_results = <<>>
  /\ loaded = <<>>
  /\ request = <<>>
  /\ extracted = <<>>

\* analyzer.determine_conversation_outcome(turns, summary, confirmed, timeout_reached, api_errors)
Classify ==
  /\ pc = "classify"
  /\ final_outcome' =
       <<determine_conversation_outcome(turns, sut_provided_summary, proxy_confirmed,
                                        timeout_reached, api_errors, 0, DefaultTimeout)>>
  /\ pc' = "classified"
  /\ UNCHANGED <<run_dials, detected, cli, retry, setup, seed, contract, turn_idx, turns, messages, api_errors,
                 sut_provided_summary, fields_captured, last_tangent_turn, sut_reply,
                 controller, clock, elapsed_time, proxy_confirmed, timeout_reached, hist,
                 usage_stats, run_results, loaded, request, extracted>>

NextOutcome == Classify

SpecOutcome == InitOutcome /\ [][NextOutcome]_vars

(***************************************************************************)
(* The two detectors of the analyzer, each called on its own on a turn     *)
(* list                                                                    *)
(***************************************************************************)
MaxDetectorTurns == 3

DetectorContents ==
  { <<"Job Title: Backend Engineer.", "And which city", Q>>,
    <<"It is remote.", "And which city", Q, "What brings you here", Q>>,
    <<"It is full-time.", Q, Q, Q>>,
    <<"Skills: Python.">> }

DetectorTurns == {Turn(r, c, <<>>) : r \in {"system", "user"}, c \in DetectorContents}

InitDetectors ==
  /\ pc = "detect"
  /\ setup = NoSetup
  /\ seed = <<>>
  /\ contract = <<>>
  /\ turn_idx = 0
  /\ turns \in SeqsUpTo(DetectorTurns, MaxDetectorTurns)
  /\ messages = <<>>
  /\ api_errors = <<>>
  /\ sut_provided_summary = FALSE
  /\ fields_captured = {}
  /\ last_tangent_turn = -10
  /\ sut_reply = <<>>
  /\ controller = NoController
  /\ clock = 0
  /\ elapsed_time = 0
  /\ proxy_confirmed = FALSE
  /\ timeout_reached = FALSE
  /\ final_outcome = <<>>
  /\ hist = NoHist
  /\ run_dials = <<>>
  /\ detected = NoDetected
  /\ cli = NoCli
  /\ retry = NoRetry
  /\ usage_stats = UsageStats
  /\ run_results = <<>>
  /\ loaded = <<>>
  /\ request = <<>>
  /\ extracted = <<>>

\* analyzer._analyze_persona_adherence(turns)
AnalyzePersona ==
  /\ pc = "detect"
  /\ detected.persona = <<>>
  /\ detected' = [detected EXCEPT !.persona = <<_analyze_persona_adherence(turns)>>]
  /\ UNCHANGED <<pc, setup, seed, contract, turn_idx, turns, messages, api_errors,
                 sut_provided_summary, fields_captured, last_tangent_turn, sut_reply,
                 controller, clock, elapsed_time, proxy_confirmed, timeout_reached,
                 final_outcome, hist, run_dials, cli, retry,
                 usage_stats, run_results, loaded, request, extracted>>

\* analyzer._analyze_information_completeness(turns)
AnalyzeCompleteness ==
  /\ pc = "detect"
  /\ detected.completeness = <<>>
  /\ detected' =
       [detected EXCEPT !.completeness = <<_analyze_information_completeness(turns)>>]
  /\ UNCHANGED <<pc, setup, seed, contract, turn_idx, turns, messages, api_errors,
                 sut_provided_summary, fields_captured, last_tangent_turn, sut_reply,
                 controller, clock, elapsed_time, proxy_confirmed, timeout_reached,
                 final_outcome, hist, run_dials, cli, retry,
                 usage_stats, run_results, loaded, request, extracted>>

NextDetectors == AnalyzePersona \/ AnalyzeCompleteness

SpecDetectors == InitDetectors /\ [][NextDetectors]_vars

(***************************************************************************)
(* The dials of a run, the contract built from them and the controller     *)
(* that reads them back, over a grid of personas and pressure levels       *)
(***************************************************************************)
MaxControllerTurn == 1

\* persona propensities, in thousandths
Propensities == {0, 300, 600, 1000}

ElaborationShares == {0, 250, 1000}

\* a pressure level of the scenario; "unset" is a key the scenario does not give
PressureLevels == {"high", "medium", "low", "unset"}

DialSetups ==
  { [NoSetup EXCEPT !.max_turns = 1,
                    !.question_uncertain = q,
                    !.tangent_after_field = t,
                    !.elaboration_two = e,
                    !.pressure_index = <<timeline, quality, budget>>] :
      q \in Propensities, t \in Propensities, e \in ElaborationShares,
      timeline \in PressureLevels, quality \in PressureLevels, budget \in PressureLevels }

ControllerReplies == { <<"What brings you here", Q>>, <<"Job Title: Backend Engineer.", "And which city", Q>> }

InitDials ==
  /\ pc = "start"
  /\ setup \in DialSetups
  /\ seed = <<>>
  /\ contract = <<>>
  /\ turn_idx = 0
  /\ turns = <<>>
  /\ messages = <<>>
  /\ api_errors = <<>>
  /\ sut_provided_summary = FALSE
  /\ fields_captured = {}
  /\ last_tangent_turn = -10
  /\ sut_reply = <<>>
  /\ controller = NoController
  /\ clock = 0
  /\ elapsed_time = 0
  /\ proxy_confirmed = FALSE
  /\ timeout_reached = FALSE
  /\ final_outcome = <<>>
  /\ hist = NoHist
  /\ run_dials = <<>>
  /\ detected = NoDetected
  /\ cli = NoCli
  /\ retry = NoRetry
  /\ usage_stats = UsageStats
  /\ run_results = <<>>
  /\ loaded = <<>>
  /\ request = <<>>
  /\ extracted = <<>>

\* _build_turn_controller(turn_idx, sut_reply, ..., contract, seed) on the contract of the run
BuildTurnController ==
  /\ pc = "loop"
  /\ controller = NoController
  /\ \E turn \in 0..MaxControllerTurn, reply \in ControllerReplies :
       /\ turn_idx' = turn
       /\ sut_reply' = reply
       /\ controller' = _build_turn_controller(turn, reply, fields_captured, last_tangent_turn,
                                               tangent_cooldown_turns, contract, seed)
  /\ pc' = "built"
  /\ UNCHANGED <<setup, seed, contract, turns, messages, api_errors, sut_provided_summary,
                 fields_captured, last_tangent_turn, clock, elapsed_time, proxy_confirmed,
                 timeout_reached, final_outcome, hist, run_dials, detected, cli, retry,
                 usage_stats, run_results, loaded, request, extracted>>

NextDials == RunStart \/ BuildTurnController

SpecDials == InitDials /\ [][NextDials]_vars

(***************************************************************************)
(* The command line entry point: simulate(args) prepares the scenario and  *)
(* the run follows                                                         *)
(***************************************************************************)
CliTurns == 2

\* --seed of the command line; <<>> when the option is not given
CliSeeds == {<<>>, <<42>>}

\* the seed the environment holds for the settings; <<>> when it holds none
EnvSeeds == {<<>>, <<99>>}

\* the fields of the Settings dataclass, all that from_env fills from the environment:
\* there is no rng_seed among them
SettingsFields ==
  {"environment", "debug", "api_provider", "openai_api_key", "openrouter_api_key",
   "langfuse_public_key", "langfuse_secret_key", "sut_url", "proxy_url", "langfuse_host",
   "max_turns", "request_timeout", "retry_attempts", "retry_delay", "output_dir",
   "config_dir", "log_level", "log_format"}

InitCli ==
  /\ pc = "cli"
  /\ cli \in {[NoCli EXCEPT !.seed = a, !.env_seed = e] : a \in CliSeeds, e \in EnvSeeds}
  /\ setup = [BaseSetup EXCEPT !.max_turns = CliTurns]
  /\ seed = <<>>
  /\ contract = <<>>
  /\ turn_idx = 0
  /\ turns = <<>>
  /\ messages = <<>>
  /\ api_errors = <<>>
  /\ sut_provided_summary = FALSE
  /\ fields_captured = {}
  /\ last_tangent_turn = -10
  /\ sut_reply = <<>>
  /\ controller = NoController
  /\ clock = 0
  /\ elapsed_time = 0
  /\ proxy_confirmed = FALSE
  /\ timeout_reached = FALSE
  /\ final_outcome = <<>>
  /\ hist = NoHist
  /\ run_dials = <<>>
  /\ detected = NoDetected
  /\ retry = NoRetry
  /\ usage_stats = UsageStats
  /\ run_results = <<>>
  /\ loaded = <<>>
  /\ request = <<>>
  /\ extracted = <<>>

\* simulate, lines 263-346: the seed is validated and put into the scenario.  Without a
\* command line seed line 344 reads settings.rng_seed, which raises AttributeError; the
\* handler of line 395 turns it into exit code 1 and no run is made.
SimulateSeed ==
  /\ pc = "cli"
  /\ IF cli.seed # <<>>
     THEN IF cli.seed[1] <= 0
          THEN pc' = "exit1" /\ setup' = setup
          ELSE pc' = "start" /\ setup' = [setup EXCEPT !.rng_seed_override = cli.seed]
     ELSE IF "rng_seed" \in SettingsFields
          THEN pc' = "start" /\ setup' = [setup EXCEPT !.rng_seed_override = cli.env_seed]
          ELSE pc' = "exit1" /\ setup' = setup
  /\ UNCHANGED <<seed, contract, turn_idx, turns, messages, api_errors, sut_provided_summary,
                 fields_captured, last_tangent_turn, sut_reply, controller, clock,
                 elapsed_time, proxy_confirmed, timeout_reached, final_outcome, hist,
                 run_dials, detected, cli, retry,
                 usage_stats, run_results, loaded, request, extracted>>

NextCli == SimulateSeed \/ Next

SpecCli == InitCli /\ [][NextCli]_vars

(***************************************************************************)
(* run_simulation_with_retry: the whole-run retry wrapper.  A results      *)
(* record is the set of its keys; an exception is its message.             *)
(***************************************************************************)
MaxRetries == 3

\* a slip: a record without transcript_path taken as complete
IsComplete_Any(results) == TRUE

\* line 238, negated: results is non-empty and holds transcript_path
IsComplete(results) == results # {} /\ "transcript_path" \in results

\* lines 213-224: the record returned for a transcript that exists already
MockResults ==
  {"transcript_path", "jsonl_path", "run_id", "final_outcome", "timeout_reached",
   "elapsed_time", "timeout_limit", "information_gathered", "usage_stats",
   "sampling_parameters"}

AttemptOutcomes ==
  {AttemptOutcome("results", r, <<>>) :
     r \in {{"transcript_path", "jsonl_path", "final_outcome"}, {"jsonl_path"}, {}}}
  \cup
  {AttemptOutcome("error", {}, e) :
     e \in {<<"Request timeout.">>, <<"HTTP 503 from proxy.">>, <<"Rate limit exceeded.">>,
            <<"Persona file is invalid.">>, <<"No route to sut-gateway.">>}}

\* the exception that leaves the try block of one attempt; <<>> when the attempt returns
AttemptException(o) ==
  IF o.kind = "error" THEN <<o.error>>
  ELSE IF ~IsComplete(o.results) THEN << <<"Simulation returned incomplete results">> >>
  ELSE <<>>

\* a file name is the sequence of its pieces, the suffix last: the engine names a transcript
\* f"{run_id}__{persona_slug}__{scenario_slug}" with the suffix .md or .jsonl
FileNames ==
  {<<"sim_1", "__", "alex__hiring", ".md">>,
   <<"sim_1", "__", "alex__hiring", ".jsonl">>,
   <<"sim_1", "__", "dana__budget", ".jsonl">>,
   <<"sim_1", "__", "notes", ".txt">>,
   <<"sim_1", "0", "__", "alex__hiring", ".md">>,
   <<"sim_2", "_", "alex__hiring", ".md">>}

RunIds == {<<"sim_1">>, <<"sim_2">>}

Directory(files) == [exists |-> TRUE, files |-> files]

\* file_path.suffix
Suffix(name) == name[Len(name)]

\* str(file_path.with_suffix(suffix))
WithSuffix(name, suffix) == [name EXCEPT ![Len(name)] = suffix]

\* a slip: the glob without the "__" after the run id
Glob_IdPrefix(dir, run_id) ==
  {name \in dir.files :
     /\ Len(name) > Len(run_id)
     /\ SubSeq(name, 1, Len(run_id)) = run_id}

\* the entries output_path.glob(f"{run_id}__*") yields
Glob(dir, run_id) ==
  {name \in dir.files :
     /\ Len(name) > Len(run_id) + 1
     /\ SubSeq(name, 1, Len(run_id) + 1) = run_id \o <<"__">>}

\* the values check_duplicate_transcript can return, <<>> for None: the first entry of the
\* glob with the suffix .md or .jsonl decides, and the order of the glob is the file
\* system's
check_duplicate_transcript(run_id, output_dir) ==
  IF ~output_dir.exists THEN {<<>>}
  ELSE LET found == {name \in Glob(output_dir, run_id) : Suffix(name) \in {".md", ".jsonl"}}
       IN  IF found = {} THEN {<<>>}
           ELSE {<<[md_path |-> WithSuffix(name, ".md"),
                    jsonl_path |-> WithSuffix(name, ".jsonl")]>> : name \in found}

\* lines 213-224: the record returned for an existing transcript
MockRecord(existing_files, run_id) ==
  [transcript_path |-> existing_files.md_path,
   jsonl_path |-> existing_files.jsonl_path,
   run_id |-> run_id,
   final_outcome |-> [status |-> "completed_successfully", completion_level |-> 100],
   timeout_reached |-> FALSE,
   elapsed_time |-> 0]

InitRetry ==
  /\ pc = "retry"
  /\ cli \in {[NoCli EXCEPT !.max_retries = m] : m \in -1..MaxRetries}
  /\ retry \in {[NoRetry EXCEPT !.run_id = <<"sim_1">>, !.skip_duplicates = skip,
                                 !.output_dir = dir] :
                  skip \in BOOLEAN,
                  dir \in {NoDirectory, Directory({<<"sim_1", "__", "alex__hiring", ".md">>})}}
  /\ setup = NoSetup
  /\ seed = <<>>
  /\ contract = <<>>
  /\ turn_idx = 0
  /\ turns = <<>>
  /\ messages = <<>>
  /\ api_errors = <<>>
  /\ sut_provided_summary = FALSE
  /\ fields_captured = {}
  /\ last_tangent_turn = -10
  /\ sut_reply = <<>>
  /\ controller = NoController
  /\ clock = 0
  /\ elapsed_time = 0
  /\ proxy_confirmed = FALSE
  /\ timeout_reached = FALSE
  /\ final_outcome = <<>>
  /\ hist = NoHist
  /\ run_dials = <<>>
  /\ detected = NoDetected
  /\ usage_stats = UsageStats
  /\ run_results = <<>>
  /\ loaded = <<>>
  /\ request = <<>>
  /\ extracted = <<>>

\* lines 202-226: the duplicate check, then the loop is entered
RetryStart ==
  /\ pc = "retry"
  /\ retry.state = "idle"
  /\ \E existing_files \in check_duplicate_transcript(retry.run_id, retry.output_dir) :
       retry' = IF retry.skip_duplicates /\ existing_files # <<>>
                THEN [retry EXCEPT !.state = "returned", !.returned = <<MockResults>>,
                                   !.mock = <<MockRecord(existing_files[1], retry.run_id)>>]
                ELSE [retry EXCEPT !.state = "loop", !.attempt = 0]
  /\ UNCHANGED <<pc, setup, seed, contract, turn_idx, turns, messages, api_errors,
                 sut_provided_summary, fields_captured, last_tangent_turn, sut_reply,
                 controller, clock, elapsed_time, proxy_confirmed, timeout_reached,
                 final_outcome, hist, run_dials, detected, cli,
                 usage_stats, run_results, loaded, request, extracted>>

\* lines 228-257: one pass of the loop: the delay, the call, the test of the results and
\* the handler of the exception
RetryAttempt ==
  /\ pc = "retry"
  /\ retry.state = "loop"
  /\ retry.attempt <= cli.max_retries
  /\ \E o \in AttemptOutcomes :
       LET e == AttemptException(o)
           called == [retry EXCEPT !.calls = @ + 1, !.outcomes = Append(@, o)]
       IN  retry' =
             IF e = <<>>
             THEN [called EXCEPT !.state = "returned", !.returned = <<o.results>>]
             ELSE IF ShouldRetry(retry.attempt, cli.max_retries, e[1])
                  THEN [called EXCEPT !.last_exception = e, !.attempt = @ + 1]
                  ELSE [called EXCEPT !.last_exception = e, !.state = "raised", !.raised = e]
  /\ UNCHANGED <<pc, setup, seed, contract, turn_idx, turns, messages, api_errors,
                 sut_provided_summary, fields_captured, last_tangent_turn, sut_reply,
                 controller, clock, elapsed_time, proxy_confirmed, timeout_reached,
                 final_outcome, hist, run_dials, detected, cli,
                 usage_stats, run_results, loaded, request, extracted>>

\* line 260: the loop is used up
RetryLoopEnds ==
  /\ pc = "retry"
  /\ retry.state = "loop"
  /\ retry.attempt > cli.max_retries
  /\ retry' = [retry EXCEPT !.state = "raised",
                            !.raised = IF retry.last_exception # <<>> THEN retry.last_exception
                                       ELSE << <<"Unknown error in retry loop">> >>]
  /\ UNCHANGED <<pc, setup, seed, contract, turn_idx, turns, messages, api_errors,
                 sut_provided_summary, fields_captured, last_tangent_turn, sut_reply,
                 controller, clock, elapsed_time, proxy_confirmed, timeout_reached,
                 final_outcome, hist, run_dials, detected, cli,
                 usage_stats, run_results, loaded, request, extracted>>

NextRetry == RetryStart \/ RetryAttempt \/ RetryLoopEnds

SpecRetry == InitRetry /\ [][NextRetry]_vars

\* the delay and the call of each pass come to an end, so the loop goes on
SpecRetryFair == SpecRetry /\ WF_vars(NextRetry)

(***************************************************************************)
(* The wrapper as simulate() calls it: --skip-duplicates is a store_true   *)
(* flag with the default True, and validate_positive_integer admits only   *)
(* max_retries >= 1, so that the loop always returns or raises in a pass   *)
(***************************************************************************)
DuplicateRetries == 1

InitDuplicates ==
  /\ pc = "retry"
  /\ cli \in {[NoCli EXCEPT !.max_retries = m] : m \in 1..DuplicateRetries}
  /\ retry \in {[NoRetry EXCEPT !.run_id = id, !.output_dir = dir] :
                  id \in RunIds,
                  dir \in {NoDirectory} \cup {Directory(files) : files \in SUBSET FileNames}}
  /\ setup = NoSetup
  /\ seed = <<>>
  /\ contract = <<>>
  /\ turn_idx = 0
  /\ turns = <<>>
  /\ messages = <<>>
  /\ api_errors = <<>>
  /\ sut_provided_summary = FALSE
  /\ fields_captured = {}
  /\ last_tangent_turn = -10
  /\ sut_reply = <<>>
  /\ controller = NoController
  /\ clock = 0
  /\ elapsed_time = 0
  /\ proxy_confirmed = FALSE
  /\ timeout_reached = FALSE
  /\ final_outcome = <<>>
  /\ hist = NoHist
  /\ run_dials = <<>>
  /\ detected = NoDetected
  /\ usage_stats = UsageStats
  /\ run_results = <<>>
  /\ loaded = <<>>
  /\ request = <<>>
  /\ extracted = <<>>

NextDuplicates == RetryStart \/ RetryAttempt

SpecDuplicates == InitDuplicates /\ [][NextDuplicates]_vars

(***************************************************************************)
(* The wrapper around a run followed turn by turn: each pass of its loop   *)
(* calls run_simulation, whose failed LLM calls are caught inside the run; *)
(* the one exception that leaves the run here is the OSError of the        *)
(* transcript file, which run_simulation opens outside any try block       *)
(***************************************************************************)
WrappedRetries == 1

WrappedTurns == 2

\* str(e) of the OSError that open() raises in _save_transcript
SaveErrors == { <<"Connection reset by peer.">>, <<"Permission denied.">> }

\* simulation_engine.py lines 413-434: the keys of the results record
ResultKeys ==
  {"run_id", "persona", "scenario", "total_turns", "conversation_summary", "final_outcome",
   "information_gathered", "transcript_path", "jsonl_path", "elapsed_time", "timeout_reached",
   "timeout_limit", "usage_stats"}

InitWrapped ==
  /\ pc = "retry"
  /\ cli \in {[NoCli EXCEPT !.max_retries = m] : m \in 1..WrappedRetries}
  /\ retry = [NoRetry EXCEPT !.run_id = <<"sim_1">>]
  /\ setup \in {[BaseSetup EXCEPT !.max_turns = n] : n \in 1..WrappedTurns}
  /\ seed = <<>>
  /\ contract = <<>>
  /\ turn_idx = 0
  /\ turns = <<>>
  /\ messages = <<>>
  /\ api_errors = <<>>
  /\ sut_provided_summary = FALSE
  /\ fields_captured = {}
  /\ last_tangent_turn = -10
  /\ sut_reply = <<>>
  /\ controller = NoController
  /\ clock = 0
  /\ elapsed_time = 0
  /\ proxy_confirmed = FALSE
  /\ timeout_reached = FALSE
  /\ final_outcome = <<>>
  /\ hist = NoHist
  /\ run_dials = <<>>
  /\ detected = NoDetected
  /\ usage_stats = UsageStats
  /\ run_results = <<>>
  /\ loaded = <<>>
  /\ request = <<>>
  /\ extracted = <<>>

\* simulate.py lines 229-235: a pass of the loop calls engine.run_simulation
AttemptCalls ==
  /\ pc = "retry"
  /\ retry.state = "loop"
  /\ retry.attempt <= cli.max_retries
  /\ retry' = [retry EXCEPT !.calls = @ + 1]
  /\ hist' = [NoHist EXCEPT !.run = retry.calls + 1]
  /\ final_outcome' = <<>>
  /\ run_results' = <<>>
  /\ pc' = "start"
  /\ UNCHANGED <<setup, seed, contract, turn_idx, turns, messages, api_errors,
                 sut_provided_summary, fields_captured, last_tangent_turn, sut_reply,
                 controller, clock, elapsed_time, proxy_confirmed, timeout_reached,
                 run_dials, detected, cli, usage_stats, loaded, request, extracted>>

\* simulation_engine.py lines 357-358 (_save_transcript, line 137): the transcript file cannot
\* be opened; the exception leaves run_simulation and the wrapper handles it
SaveTranscriptRaises ==
  /\ pc = "after_loop"
  /\ retry.state = "loop"
  /\ \E e \in SaveErrors : retry' = Caught(retry, cli.max_retries, e)
  /\ pc' = "retry"
  /\ UNCHANGED <<setup, seed, contract, turn_idx, turns, messages, api_errors,
                 sut_provided_summary, fields_captured, last_tangent_turn, sut_reply,
                 controller, clock, elapsed_time, proxy_confirmed, timeout_reached,
                 final_outcome, hist, run_dials, detected, cli,
                 usage_stats, run_results, loaded, request, extracted>>

\* simulate.py lines 235-242: run_simulation has returned its record
AttemptReturns ==
  /\ pc = "returned"
  /\ retry.state = "loop"
  /\ LET o == AttemptOutcome("results", ResultKeys, <<>>)
         e == AttemptException(o)
     IN  retry' =
           IF e = <<>>
           THEN [retry EXCEPT !.outcomes = Append(@, o), !.state = "returned",
                              !.returned = <<o.results>>]
           ELSE Caught(retry, cli.max_retries, e[1])
  /\ pc' = "retry"
  /\ UNCHANGED <<setup, seed, contract, turn_idx, turns, messages, api_errors,
                 sut_provided_summary, fields_captured, last_tangent_turn, sut_reply,
                 controller, clock, elapsed_time, proxy_confirmed, timeout_reached,
                 final_outcome, hist, run_dials, detected, cli,
                 usage_stats, run_results, loaded, request, extracted>>

NextWrapped ==
  \/ RetryStart
  \/ AttemptCalls
  \/ RunStart
  \/ LoopExhausted
  \/ LoopTimeoutBreak
  \/ LoopEnter
  \/ SutTurnOk
  \/ SutTurnFails
  \/ ProxyTurnOk
  \/ ProxyTurnFails
  \/ SaveTranscriptRaises
  \/ Analyze
  \/ AttemptReturns

SpecWrapped == InitWrapped /\ [][NextWrapped]_vars

(***************************************************************************)
(* ConversationAnalyzer construction: the mandatory fields are loaded from *)
(* the prompt document.  A document is the sequence of its lines.          *)
(***************************************************************************)
MaxDocLines == 3

\* the heading the section pattern looks for (its emoji left out)
SectionHeading == "### MANDATORY FIELDS TO EXTRACT"

PromptLines ==
  {SectionHeading, "### STYLE", "", "---", "- Job Title:", "- Location", "* :"}

\* a line starts with "###"
IsHeading(line) == line \in {SectionHeading, "### STYLE"}

\* lines 79-92 on one line: strip, skip empty lines, headings and rules, drop the bullet,
\* cut at the arrow, drop the colons, strip; "" when nothing is left or the line is skipped
FieldNameOf(line) ==
  CASE line = "- Job Title:" -> "Job Title"
    [] line = "- Location" -> "Location"
    [] OTHER -> ""

\* lines 99-128
_map_field_to_analysis(field_name) ==
  CASE field_name = "Job Title" -> "job_title"
    [] field_name = "Location" -> "location"

\* lines 66-71: from the first section heading up to the next "###" or the end; <<>> when
\* the heading is not there
_extract_mandatory_section(content) ==
  LET starts == {i \in DOMAIN content : content[i] = SectionHeading}
  IN  IF starts = {} THEN <<>>
      ELSE LET first == CHOOSE i \in starts : \A j \in starts : i <= j
               stops == {j \in DOMAIN content : j > first /\ IsHeading(content[j])}
               last == IF stops = {} THEN Len(content)
                       ELSE (CHOOSE j \in stops : \A k \in stops : j <= k) - 1
           IN  SubSeq(content, first, last)

\* lines 73-97: the dict of the fields, a later line overwriting an earlier one
_parse_mandatory_fields(section) ==
  LET named == {i \in DOMAIN section : FieldNameOf(section[i]) # ""}
      keyAt(i) == _map_field_to_analysis(FieldNameOf(section[i]))
  IN  [k \in {keyAt(i) : i \in named} |->
         FieldNameOf(section[CHOOSE i \in named :
                               keyAt(i) = k /\ \A j \in named : keyAt(j) = k => j <= i])]

\* lines 40-64
_load_mandatory_fields(document) ==
  IF ~document.exists THEN mandatory_fields
  ELSE IF ~document.readable THEN mandatory_fields
  ELSE IF _extract_mandatory_section(document.content) = <<>> THEN mandatory_fields
  ELSE _parse_mandatory_fields(_extract_mandatory_section(document.content))

PromptDocument(exists, readable, content) ==
  [exists |-> exists, readable |-> readable, content |-> content]

PromptDocuments ==
  {PromptDocument(FALSE, FALSE, <<>>), PromptDocument(TRUE, FALSE, <<>>)}
  \cup {PromptDocument(TRUE, TRUE, c) : c \in SeqsUpTo(PromptLines, MaxDocLines)}

InitLoad ==
  /\ pc = "load"
  /\ loaded \in {[document |-> doc, mandatory_fields |-> <<>>] : doc \in PromptDocuments}
  /\ setup = NoSetup
  /\ seed = <<>>
  /\ contract = <<>>
  /\ turn_idx = 0
  /\ turns = <<>>
  /\ messages = <<>>
  /\ api_errors = <<>>
  /\ sut_provided_summary = FALSE
  /\ fields_captured = {}
  /\ last_tangent_turn = -10
  /\ sut_reply = <<>>
  /\ controller = NoController
  /\ clock = 0
  /\ elapsed_time = 0
  /\ proxy_confirmed = FALSE
  /\ timeout_reached = FALSE
  /\ final_outcome = <<>>
  /\ hist = NoHist
  /\ run_dials = <<>>
  /\ detected = NoDetected
  /\ cli = NoCli
  /\ retry = NoRetry
  /\ usage_stats = UsageStats
  /\ run_results = <<>>
  /\ request = <<>>
  /\ extracted = <<>>

\* ConversationAnalyzer.__init__, line 25
LoadMandatoryFields ==
  /\ pc = "load"
  /\ loaded' = [loaded EXCEPT !.mandatory_fields = <<_load_mandatory_fields(loaded.document)>>]
  /\ pc' = "loaded"
  /\ UNCHANGED <<setup, seed, contract, turn_idx, turns, messages, api_errors,
                 sut_provided_summary, fields_captured, last_tangent_turn, sut_reply,
                 controller, clock, elapsed_time, proxy_confirmed, timeout_reached,
                 final_outcome, hist, run_dials, detected, cli, retry, usage_stats,
                 run_results, request, extracted>>

NextLoad == LoadMandatoryFields

SpecLoad == InitLoad /\ [][NextLoad]_vars

(***************************************************************************)
(* BaseAPIClient._make_request: what session.post does, and what the       *)
(* method returns or raises.  An exception is its class and its message.   *)
(***************************************************************************)
\* the base classes of an exception class, the class itself included
Superclasses(cls) ==
  CASE cls = "requests.Timeout" -> {"requests.Timeout", "requests.RequestException", "Exception"}
    [] cls = "requests.ConnectionError" ->
         {"requests.ConnectionError", "requests.RequestException", "Exception"}
    [] cls = "requests.RetryError" -> {"requests.RetryError", "requests.RequestException", "Exception"}
    [] cls = "requests.HTTPError" -> {"requests.HTTPError", "requests.RequestException", "Exception"}
    [] cls = "APITimeoutError" -> {"APITimeoutError", "APIError", "Exception"}
    [] cls = "APIRateLimitError" -> {"APIRateLimitError", "APIError", "Exception"}
    [] cls = "APIError" -> {"APIError", "Exception"}
    [] cls = "ValueError" -> {"ValueError", "Exception"}

RequestRaises(cls, message) == [kind |-> "raise", cls |-> cls, message |-> message]

RequestReturns(value) == [kind |-> "return", cls |-> "none", message |-> value]

\* float(retry_after) works
IsNumberText(text) == text \in {"0", "30", "60"}

\* what session.post does: it raises, or it gives a response with a status code, a
\* Retry-After header (<<>> when absent) and a body that is JSON or not
Transport(does, status_code, retry_after, is_json) ==
  [does |-> does, status_code |-> status_code, retry_after |-> retry_after, is_json |-> is_json]

Transports ==
  {Transport(x, 0, <<>>, FALSE) :
     x \in {"requests.Timeout", "requests.ConnectionError", "requests.RetryError"}}
  \cup
  {Transport("response", code, ra, j) :
     code \in {200, 201, 400, 401, 404, 429, 500, 502, 503},
     ra \in {<<>>, <<"0">>, <<"30">>, <<"Wed, 21 Oct 2015 07:28:00 GMT">>},
     j \in BOOLEAN}

\* lines 83-103: the body of the try block
TryBody(t) ==
  IF t.does # "response" THEN RequestRaises(t.does, <<t.does>>)
  ELSE IF t.status_code = 429
       THEN LET retry_after == IF t.retry_after = <<>> THEN "60" ELSE t.retry_after[1]
            IN  IF IsNumberText(retry_after)
                THEN RequestRaises("APIRateLimitError", <<"Rate limited. Retry after", retry_after, "seconds">>)
                ELSE RequestRaises("ValueError", <<"could not convert string to float:", retry_after>>)
       ELSE IF t.status_code >= 400 THEN RequestRaises("requests.HTTPError", <<"HTTP error">>)
       ELSE IF ~t.is_json THEN RequestRaises("ValueError", <<"not JSON">>)
       ELSE RequestReturns(<<"response.json()">>)

\* lines 105-113: the except clauses, the first that matches the class of the exception
_make_request(t) ==
  LET body == TryBody(t)
  IN  IF body.kind = "return" THEN body
      ELSE IF "requests.Timeout" \in Superclasses(body.cls)
           THEN RequestRaises("APITimeoutError", <<"Request timeout">>)
      ELSE IF "requests.RequestException" \in Superclasses(body.cls)
           THEN RequestRaises("APIError", <<"Request failed:">> \o body.message)
      ELSE IF "Exception" \in Superclasses(body.cls)
           THEN RequestRaises("APIError", <<"Unexpected error:">> \o body.message)
      ELSE body

InitRequest ==
  /\ pc = "request"
  /\ request \in {[transport |-> t, outcome |-> <<>>] : t \in Transports}
  /\ setup = NoSetup
  /\ seed = <<>>
  /\ contract = <<>>
  /\ turn_idx = 0
  /\ turns = <<>>
  /\ messages = <<>>
  /\ api_errors = <<>>
  /\ sut_provided_summary = FALSE
  /\ fields_captured = {}
  /\ last_tangent_turn = -10
  /\ sut_reply = <<>>
  /\ controller = NoController
  /\ clock = 0
  /\ elapsed_time = 0
  /\ proxy_confirmed = FALSE
  /\ timeout_reached = FALSE
  /\ final_outcome = <<>>
  /\ hist = NoHist
  /\ run_dials = <<>>
  /\ detected = NoDetected
  /\ cli = NoCli
  /\ retry = NoRetry
  /\ usage_stats = UsageStats
  /\ run_results = <<>>
  /\ loaded = <<>>
  /\ extracted = <<>>

\* client._make_request(payload)
MakeRequest ==
  /\ pc = "request"
  /\ request' = [request EXCEPT !.outcome = <<_make_request(request.transport)>>]
  /\ pc' = "requested"
  /\ UNCHANGED <<setup, seed, contract, turn_idx, turns, messages, api_errors,
                 sut_provided_summary, fields_captured, last_tangent_turn, sut_reply,
                 controller, clock, elapsed_time, proxy_confirmed, timeout_reached,
                 final_outcome, hist, run_dials, detected, cli, retry, usage_stats,
                 run_results, loaded, extracted>>

NextRequest == MakeRequest

SpecRequest == InitRequest /\ [][NextRequest]_vars

(***************************************************************************)
(* Field extraction (conversation_analyzer.py).  The conversation is a      *)
(* sequence of words joined by single blanks                                *)
(***************************************************************************)
MaxWords == 3

ExampleText == <<"Employment Type:", "Full-time", "and", "Location:", "Remote">>

ExtractWords ==
  {"Full-time", "part-time", "contractor", "internal", "Remote", "hybrid", "on-site",
   "in", "a", "city.", "Oslo,", "salary"}

ExtractTexts == {ExampleText} \cup UNION {[1..n -> ExtractWords] : n \in 0..MaxWords}

\* an optional string: <<>> is None, <<s>> is the string s (a sequence of words)
_extract_employment_type(conversation_lower) ==
  IF ContainsAny(conversation_lower, {"full-time", "fulltime"}) THEN <<(<<"Full-time">>)>>
  ELSE IF ContainsAny(conversation_lower, {"part-time", "parttime"}) THEN <<(<<"Part-time">>)>>
  ELSE IF Contains(conversation_lower, "contract") THEN <<(<<"Contract">>)>>
  ELSE IF ContainsAny(conversation_lower, {"intern", "internship"}) THEN <<(<<"Internship">>)>>
  ELSE <<>>

\* a slip: hybrid tested before remote
_extract_workplace_type_HybridFirst(conversation_lower) ==
  IF Contains(conversation_lower, "hybrid") THEN <<(<<"Hybrid">>)>>
  ELSE IF Contains(conversation_lower, "remote") THEN <<(<<"Remote">>)>>
  ELSE IF ContainsAny(conversation_lower, {"onsite", "on-site"}) THEN <<(<<"Onsite">>)>>
  ELSE <<>>

_extract_workplace_type(conversation_lower) ==
  IF Contains(conversation_lower, "remote") THEN <<(<<"Remote">>)>>
  ELSE IF Contains(conversation_lower, "hybrid") THEN <<(<<"Hybrid">>)>>
  ELSE IF ContainsAny(conversation_lower, {"onsite", "on-site"}) THEN <<(<<"Onsite">>)>>
  ELSE <<>>

\* the word ends with "in" or "at": the first group of location pattern 1, with \s+ after it
EndsWithPreposition(a) == a \in {"in"}

\* the word holds one of . ! ? , which the capture [^.!?\n,]+ cannot cross
BreaksCapture(a) == a \in {"city.", "oslo,"}

\* the prefix of the word that ends with city|town|state|country|remote|hybrid|onsite and
\* holds none of . ! ? , (in every word of the table the keyword starts the word)
PlaceEnd(a) ==
  CASE a = "remote" -> <<"remote">>
    [] a = "hybrid" -> <<"hybrid">>
    [] a = "city." -> <<"city">>
    [] OTHER -> <<>>

\* the words at which a capture of pattern 1 that starts after word i can end: the capture
\* needs one character before the keyword, so it cannot end in word i + 1
CaptureEnds(text, i) ==
  {j \in (i + 2)..Len(text) :
     /\ PlaceEnd(text[j]) # <<>>
     /\ \A k \in (i + 1)..(j - 1) : ~BreaksCapture(text[k])}

Leftmost(S) == CHOOSE x \in S : \A y \in S : x <= y

Rightmost(S) == CHOOSE x \in S : \A y \in S : x >= y

\* re.findall(location_patterns[0], conversation_lower): leftmost start, greedy capture
RECURSIVE FindAllLocated(_, _)
FindAllLocated(text, from) ==
  LET starts == {i \in from..Len(text) :
                   EndsWithPreposition(text[i]) /\ CaptureEnds(text, i) # {}}
  IN  IF starts = {} THEN <<>>
      ELSE LET i == Leftmost(starts)
               j == Rightmost(CaptureEnds(text, i))
           IN  <<SubSeq(text, i + 1, j - 1) \o PlaceEnd(text[j])>>
               \o FindAllLocated(text, j + 1)

\* what remote|hybrid|onsite|on-site (location pattern 2) matches in one word
WorkplaceWordIn(a) ==
  CASE a = "remote" -> <<(<<"remote">>)>>
    [] a = "hybrid" -> <<(<<"hybrid">>)>>
    [] a = "on-site" -> <<(<<"on-site">>)>>
    [] OTHER -> <<>>

\* what the city alternatives (location pattern 3) match in one word
CityIn(a) ==
  CASE a = "salary" -> <<(<<"la">>)>>
    [] OTHER -> <<>>

\* re.findall(location_patterns[1], conversation_lower): the matches in text order
RECURSIVE FindAllWorkplace(_)
FindAllWorkplace(text) ==
  IF text = <<>> THEN <<>>
  ELSE WorkplaceWordIn(Head(text)) \o FindAllWorkplace(Tail(text))

\* re.findall(location_patterns[2], conversation_lower): the matches in text order
RECURSIVE FindAllCities(_)
FindAllCities(text) ==
  IF text = <<>> THEN <<>>
  ELSE CityIn(Head(text)) \o FindAllCities(Tail(text))

\* str.title() of one word
TitleWord(a) ==
  CASE a = "remote" -> "Remote"
    [] a = "hybrid" -> "Hybrid"
    [] a = "on-site" -> "On-Site"
    [] a = "city" -> "City"
    [] a = "a" -> "A"
    [] a = "in" -> "In"
    [] a = "la" -> "La"
    [] a = "full-time" -> "Full-Time"
    [] a = "part-time" -> "Part-Time"
    [] a = "contractor" -> "Contractor"
    [] a = "internal" -> "Internal"
    [] a = "salary" -> "Salary"
    [] a = "and" -> "And"
    [] a = "location:" -> "Location:"
    [] a = "employment type:" -> "Employment Type:"
    [] OTHER -> a

Title(words) == [i \in DOMAIN words |-> TitleWord(words[i])]

\* len() of the words joined by single blanks
JoinedLen(words) == IF words = <<>> THEN 0 ELSE TextLen(words) + Len(words) - 1

\* the first match with `location and len(location) < 50`, titled; match.strip() leaves a
\* match alone, no match of the three patterns starting or ending with a blank
RECURSIVE FirstLocation(_)
FirstLocation(matches) ==
  IF matches = <<>> THEN <<>>
  ELSE IF Head(matches) # <<>> /\ JoinedLen(Head(matches)) < 50
       THEN <<Title(Head(matches))>>
       ELSE FirstLocation(Tail(matches))

_extract_location(conversation_lower) ==
  FirstLocation(FindAllLocated(conversation_lower, 1)
                \o FindAllWorkplace(conversation_lower)
                \o FindAllCities(conversation_lower))

\* the three branches of _extract_field_value that produce the fields below
_extract_field_value(field_key, conversation_lower) ==
  CASE field_key = "location" -> _extract_location(conversation_lower)
    [] field_key = "employment_type" -> _extract_employment_type(conversation_lower)
    [] field_key = "workplace_type" -> _extract_workplace_type(conversation_lower)

\* _extract_all_fields(conversation), restricted to the keys location, employment_type and
\* workplace_type; each key of the dict is computed from the conversation alone
ExtractedValues(conversation) ==
  [field_key \in (DOMAIN mandatory_fields) \cap {"location", "employment_type", "workplace_type"} |->
     _extract_field_value(field_key, Lower(conversation))]

InitExtract ==
  /\ pc = "extract"
  /\ extracted \in {[conversation |-> t, fields |-> <<>>] : t \in ExtractTexts}
  /\ setup = NoSetup
  /\ seed = <<>>
  /\ contract = <<>>
  /\ turn_idx = 0
  /\ turns = <<>>
  /\ messages = <<>>
  /\ api_errors = <<>>
  /\ sut_provided_summary = FALSE
  /\ fields_captured = {}
  /\ last_tangent_turn = -10
  /\ sut_reply = <<>>
  /\ controller = NoController
  /\ clock = 0
  /\ elapsed_time = 0
  /\ proxy_confirmed = FALSE
  /\ timeout_reached = FALSE
  /\ final_outcome = <<>>
  /\ hist = NoHist
  /\ run_dials = <<>>
  /\ detected = NoDetected
  /\ cli = NoCli
  /\ retry = NoRetry
  /\ usage_stats = UsageStats
  /\ run_results = <<>>
  /\ loaded = <<>>
  /\ request = <<>>

\* analyzer._extract_all_fields(conversation)
ExtractAllFields ==
  /\ pc = "extract"
  /\ extracted' = [extracted EXCEPT !.fields = <<ExtractedValues(extracted.conversation)>>]
  /\ pc' = "extracted"
  /\ UNCHANGED <<setup, seed, contract, turn_idx, turns, messages, api_errors,
                 sut_provided_summary, fields_captured, last_tangent_turn, sut_reply,
                 controller, clock, elapsed_time, proxy_confirmed, timeout_reached,
                 final_outcome, hist, run_dials, detected, cli, retry, usage_stats,
                 run_results, loaded, request>>

NextExtract == ExtractAllFields

SpecExtract == InitExtract /\ [][NextExtract]_vars

(***************************************************************************)
(* Properties of the classifier (specification SpecOutcome)                *)
(***************************************************************************)
Classified == pc = "classified"

Outcome == final_outcome[1]

\* the failures of the outcome that satisfy P
FailuresWith(P(_)) == {i \in DOMAIN Outcome.failures : P(Outcome.failures[i])}

StatusPair == <<Outcome.status, Outcome.completion_level>>

\* C1: with timeout_reached true and api_errors non-empty the status is TIMEOUT and the
\* completion level 25, whatever the turns and the summary and confirmation flags are.
C1_TimeoutWins ==
  (Classified /\ timeout_reached /\ api_errors # <<>>) => StatusPair = <<"TIMEOUT", 25>>

C1_Witness ==
  /\ Classified /\ timeout_reached /\ Len(api_errors) = 2
  /\ sut_provided_summary /\ proxy_confirmed /\ Len(turns) = 2

IsConfirmFailure(f) ==
  f.reason = "User did not confirm the provided summary"

IsNoSummaryFailure(f) ==
  f.reason = "SUT did not provide a role summary"

\* the failures of the two detectors, which every path appends
DetectorFailureCount ==
  Len(_analyze_persona_adherence(turns)) + Len(_analyze_information_completeness(turns))

\* C2: without timeout and without API errors: summary and confirmation give
\* COMPLETED_SUCCESSFULLY/100 and no added failure; summary without confirmation gives
\* SUMMARY_PROVIDED_AWAITING_CONFIRMATION/80 and exactly one added USER_ABANDONMENT
\* failure; no summary gives INCOMPLETE/50 and exactly one added INCOMPLETE_INFORMATION
\* failure.  With a timeout or an API error none of the three statuses is produced.
C2_SuccessSection ==
  Classified =>
    LET n == Len(Outcome.failures)
        last == Outcome.failures[n]
    IN  IF ~timeout_reached /\ api_errors = <<>>
        THEN IF sut_provided_summary /\ proxy_confirmed
             THEN /\ StatusPair = <<"COMPLETED_SUCCESSFULLY", 100>>
                  /\ n = DetectorFailureCount
                  /\ FailuresWith(IsConfirmFailure) = {}
                  /\ FailuresWith(IsNoSummaryFailure) = {}
             ELSE IF sut_provided_summary
             THEN /\ StatusPair = <<"SUMMARY_PROVIDED_AWAITING_CONFIRMATION", 80>>
                  /\ n = DetectorFailureCount + 1
                  /\ FailuresWith(IsConfirmFailure) = {n}
                  /\ last.category = "USER_ABANDONMENT"
                  /\ FailuresWith(IsNoSummaryFailure) = {}
             ELSE /\ StatusPair = <<"INCOMPLETE", 50>>
                  /\ n = DetectorFailureCount + 1
                  /\ FailuresWith(IsNoSummaryFailure) = {n}
                  /\ last.category = "INCOMPLETE_INFORMATION"
                  /\ FailuresWith(IsConfirmFailure) = {}
        ELSE /\ Outcome.status \notin {"COMPLETED_SUCCESSFULLY", "INCOMPLETE",
                                       "SUMMARY_PROVIDED_AWAITING_CONFIRMATION"}
             /\ FailuresWith(IsConfirmFailure) = {}
             /\ FailuresWith(IsNoSummaryFailure) = {}

C2_Witness ==
  /\ Classified /\ ~timeout_reached /\ api_errors = <<>>
  /\ sut_provided_summary /\ ~proxy_confirmed
  /\ Len(turns) = 4
  /\ Outcome.status = "SUMMARY_PROVIDED_AWAITING_CONFIRMATION"

\* C3: with api_errors non-empty and timeout_reached false the status is ERROR and the
\* completion level 10; and, timeout or not, every entry of api_errors gets exactly one
\* failure, carrying that string, of category SUT_ERROR if the lower-cased string holds
\* "sut", else PROXY_ERROR if it holds "proxy", else API_ERROR.
C3_ApiErrors ==
  Classified =>
    /\ (api_errors # <<>> /\ ~timeout_reached) => StatusPair = <<"ERROR", 10>>
    /\ \A i \in DOMAIN api_errors :
         LET low == Lower(api_errors[i])
             isSut == \E k \in DOMAIN low : "sut" \in Occurrences(low[k])
             isProxy == \E k \in DOMAIN low : "proxy" \in Occurrences(low[k])
             want == IF isSut THEN "SUT_ERROR" ELSE IF isProxy THEN "PROXY_ERROR" ELSE "API_ERROR"
             mine == {j \in DOMAIN Outcome.failures :
                        Outcome.failures[j].context = << <<"error_index", i - 1>> >>}
         IN  /\ Cardinality(mine) = 1
             /\ \A j \in mine : /\ Outcome.failures[j].category = want
                                /\ Outcome.failures[j].error_message = <<api_errors[i]>>
    /\ Cardinality({j \in DOMAIN Outcome.failures : Outcome.failures[j].error_message # <<>>})
         = Len(api_errors)

C3_Witness ==
  /\ Classified /\ ~timeout_reached
  /\ Len(api_errors) = 2
  /\ api_errors[1] = <<"Proxy API error at turn", "1:", "Request timeout.">>
  /\ api_errors[2] = <<"SUT API error at turn", "1:", "Request timeout.">>
  /\ Outcome.failures[1].category = "PROXY_ERROR"
  /\ Outcome.failures[2].category = "SUT_ERROR"

\* the failure of the abandonment rule of _analyze_information_completeness
IsAbandonmentRuleFailure(f) ==
  f.category = "USER_ABANDONMENT" /\ f.reason = "Conversation ended prematurely"

\* C11: with fewer than 4 turns the failures hold one USER_ABANDONMENT failure of the
\* abandonment rule, whatever the contents, the flags and the status are; with 4 turns
\* or more they hold none.
C11_ShortConversation ==
  Classified =>
     Cardinality(FailuresWith(IsAbandonmentRuleFailure)) = IF Len(turns) < 4 THEN 1 ELSE 0

C11_Witness ==
  /\ Classified
  /\ Len(turns) = 3
  /\ StatusPair = <<"COMPLETED_SUCCESSFULLY", 100>>
  /\ Cardinality(FailuresWith(IsAbandonmentRuleFailure)) = 1

\* what the two detectors return for the turn list, the persona detector first
BothDetectors == _analyze_persona_adherence(turns) \o _analyze_information_completeness(turns)

\* the failures of the outcome hold seq as one block, after skip other failures
HoldsBlock(seq, skip) ==
  /\ Len(Outcome.failures) >= skip + Len(seq)
  /\ SubSeq(Outcome.failures, skip + 1, skip + Len(seq)) = seq

\* C14: the failures of the outcome hold every failure of the persona detector and of the
\* completeness detector, after the timeout failure and the API failures, on every path:
\* with a timeout, with API errors, with both and with neither.
C14_DetectorsAlwaysRun ==
  Classified =>
     HoldsBlock(BothDetectors, (IF timeout_reached THEN 1 ELSE 0) + Len(api_errors))

C14_Witness ==
  /\ Classified
  /\ timeout_reached
  /\ api_errors # <<>>
  /\ Len(BothDetectors) >= 3
  /\ HoldsBlock(BothDetectors, 1 + Len(api_errors))

\* C15: total_failures of the outcome is the length of its failures, on every path.
C15_TotalFailures ==
  Classified => Outcome.total_failures = Len(Outcome.failures)

C15_Witness ==
  /\ Classified
  /\ timeout_reached
  /\ Len(api_errors) = 2
  /\ Outcome.total_failures = Len(Outcome.failures)
  /\ Outcome.total_failures >= 4

(***************************************************************************)
(* Properties of the detectors (specification SpecDetectors)               *)
(***************************************************************************)
\* the mandatory fields for which no value is found in any content of the turn list
MissingFields ==
  {k \in DOMAIN mandatory_fields :
     \A t \in DOMAIN turns : \A i \in DOMAIN turns[t].content :
        k \notin ExtractedIn(turns[t].content[i])}

IncompleteInformationCount ==
  Cardinality({i \in DOMAIN detected.completeness[1] :
                 detected.completeness[1][i].category = "INCOMPLETE_INFORMATION"})

\* C12: the completeness detector returns one INCOMPLETE_INFORMATION failure when more
\* than half of the 8 mandatory fields have no value (5 or more missing), and none when
\* 4 or fewer are missing.
C12_HalfMissing ==
  (detected.completeness # <<>>) =>
     /\ Cardinality(DOMAIN mandatory_fields) = 8
     /\ IncompleteInformationCount = IF Cardinality(MissingFields) >= 5 THEN 1 ELSE 0

C12_Witness ==
  /\ detected.completeness # <<>>
  /\ Cardinality(MissingFields) = 5
  /\ IncompleteInformationCount = 1

\* the PROTOCOL_VIOLATION failures the persona detector returned for the turn at
\* 0-based position i
ProtocolViolationsAt(i) ==
  {k \in DOMAIN detected.persona[1] :
     /\ detected.persona[1][k].category = "PROTOCOL_VIOLATION"
     /\ detected.persona[1][k].turn_occurred = <<i + 1>>}

\* C13: for a system turn at 0-based position i with n > 1 "?", the persona detector
\* returns one PROTOCOL_VIOLATION failure, with question_count n and turn_occurred i + 1;
\* for a system turn with at most one "?" and for a user turn it returns none.
C13_ProtocolViolation ==
  (detected.persona # <<>>) =>
     /\ \A i \in 0..(Len(turns) - 1) :
          LET n == CountQ(turns[i + 1].content)
          IN  IF turns[i + 1].role = "system" /\ n > 1
              THEN /\ Cardinality(ProtocolViolationsAt(i)) = 1
                   /\ \A k \in ProtocolViolationsAt(i) :
                        detected.persona[1][k].context = << <<"question_count", n>> >>
              ELSE ProtocolViolationsAt(i) = {}
     /\ \A k \in DOMAIN detected.persona[1] :
          detected.persona[1][k].category = "PROTOCOL_VIOLATION" =>
             \E i \in 0..(Len(turns) - 1) : k \in ProtocolViolationsAt(i)

C13_Witness ==
  /\ detected.persona # <<>>
  /\ Len(turns) = 3
  /\ turns[1].role = "user" /\ CountQ(turns[1].content) = 2
  /\ turns[2].role = "system" /\ CountQ(turns[2].content) = 2
  /\ turns[3].role = "system" /\ CountQ(turns[3].content) = 3
  /\ Cardinality(ProtocolViolationsAt(1)) = 1
  /\ Cardinality(ProtocolViolationsAt(2)) = 1

(***************************************************************************)
(* Properties of the dials (specification SpecDials)                       *)
(***************************************************************************)
Dials == run_dials[1]

IsProbability(x) == x \in 0..1000

\* C16: for every persona propensity in [0, 1] and every combination of the pressure
\* levels high, medium, low and unset on the three axes, each of the three dials of the
\* run lies in [0, 1].
C16_DialsInUnitInterval ==
  run_dials # <<>> =>
     /\ IsProbability(Dials.clarifying_question_prob)
     /\ IsProbability(Dials.tangent_prob_after_field)
     /\ IsProbability(Dials.hesitation_insert_prob)

C16_Witness ==
  /\ run_dials # <<>>
  /\ setup.question_uncertain = 1000
  /\ setup.pressure_index = <<"high", "high", "high">>
  /\ Dials.clarifying_question_prob = 1000
  /\ Dials.tangent_prob_after_field \in 1..999

\* the value the controller reads for a dial; -1 when it would fall back on its default
ParsedDial(name) == _extract_float(contract, name, -1)

\* C17: the clarifying and the tangent probability that the controller reads from the
\* contract text are the dials computed for the run, never the defaults, and the
\* controller's decisions are the rolls of the seed against those dials.
C17_ContractRoundTrip ==
  run_dials # <<>> =>
     /\ ParsedDial("clarifying_question_prob") = Dials.clarifying_question_prob
     /\ ParsedDial("tangent_prob_after_field") = Dials.tangent_prob_after_field
     /\ pc = "built" =>
          /\ controller.clarifying_allowed =
               YesNo(_rand_01(seed[1], turn_idx, "clarify") < Dials.clarifying_question_prob * 10000)
          /\ controller.tangent_decision =
               /\ field_just_captured(sut_reply)
               /\ _rand_01(seed[1], turn_idx, "tangent") < Dials.tangent_prob_after_field * 10000

C17_Witness ==
  /\ pc = "built"
  /\ Dials.clarifying_question_prob = 437
  /\ Dials.tangent_prob_after_field = 210
  /\ ParsedDial("clarifying_question_prob") = 437
  /\ ParsedDial("tangent_prob_after_field") = 210
  /\ controller.clarifying_allowed = "yes"
  /\ controller.tangent_decision

(***************************************************************************)
(* Properties of the seed of a run (specification SpecCli)                 *)
(***************************************************************************)
\* the seed the caller supplies: the one of the command line, else the one of the environment
SuppliedSeed == IF cli.seed # <<>> THEN cli.seed ELSE cli.env_seed

SeedInContract(s) ==
  \E i \in DOMAIN contract :
     contract[i].key = "randomness_seed" /\ contract[i].value = FormatInt(s)

RollsUse(s) ==
  \A i \in DOMAIN hist.decisions :
     hist.decisions[i].clarifying_allowed =
       YesNo(_rand_01(s, hist.decisions[i].turn, "clarify")
               < Dials.clarifying_question_prob * 10000)

\* C18: when the caller supplies a seed (command line, else environment), the run is
\* made with it: the seed put into the scenario, the seed of the run, the seed written in
\* the contract and the seed of every controller roll are the supplied one, and the
\* command line seed wins over the one of the environment.
C18_AsStated ==
  (SuppliedSeed # <<>> /\ pc # "cli") =>
     /\ pc # "exit1"
     /\ setup.rng_seed_override = SuppliedSeed
     /\ seed # <<>> =>
          /\ seed = SuppliedSeed
          /\ SeedInContract(SuppliedSeed[1])
          /\ RollsUse(SuppliedSeed[1])

\* C26: at every point of the turn loop the turn list alternates roles starting with
\* system (position i, counted from 0, is system when i is even and user when odd), the
\* message history is as long as the turn list, with assistant for system and user for
\* user and the same contents, and the turn list has at most 2 * max_turns entries
C26_LoopInvariant ==
  /\ \A i \in DOMAIN turns :
       turns[i].role = IF (i - 1) % 2 = 0 THEN "system" ELSE "user"
  /\ Len(messages) = Len(turns)
  /\ \A i \in DOMAIN turns :
       /\ messages[i].role = IF turns[i].role = "system" THEN "assistant" ELSE turns[i].role
       /\ messages[i].content = turns[i].content
  /\ Len(turns) <= 2 * setup.max_turns

C26_Witness ==
  /\ pc = "loop"
  /\ setup.max_turns > 1
  /\ Len(turns) = 2 * setup.max_turns
  /\ turns[Len(turns)].role = "user"

\* C27: on every turn where clarifying is not allowed (the controller decided "no", or the
\* controller is disabled) the recorded persona reply is the raw reply after the
\* clarifying-question stripping filter, apart from a tangent phrase after it; with the
\* controller disabled the controller text of every turn is null and neither the
\* clarifying nor the tangent phrase is appended
C27_AsStated ==
  \A k \in DOMAIN hist.raw_replies :
     LET raw == hist.raw_replies[k]
         recorded == turns[2 * k]
     IN  /\ hist.decisions[k].clarifying_allowed = "no" =>
              \E tail \in {<<>>, TangentPhrase} :
                 recorded.content = StripClarifying(raw) \o tail
         /\ ~setup.use_controller =>
              /\ recorded.turn_controller = <<>>
              /\ recorded.content \in {raw, StripClarifying(raw)}

EndsWith(text, suffix) ==
  /\ Len(text) >= Len(suffix)
  /\ SubSeq(text, Len(text) - Len(suffix) + 1, Len(text)) = suffix

\* C28: at every turn the recorded persona reply ends with the canned tangent-and-return
\* phrase exactly when the controller is enabled and tangent_decision is true for that turn
C28_TangentMatchesDecision ==
  \A k \in DOMAIN hist.raw_replies :
     EndsWith(turns[2 * k].content, TangentPhrase)
       <=> (setup.use_controller /\ hist.decisions[k].tangent_decision)

C28_Witness ==
  \E k \in DOMAIN hist.raw_replies :
     /\ hist.decisions[k].tangent_decision
     /\ EndsWith(turns[2 * k].content, TangentPhrase)
     /\ \E j \in DOMAIN hist.raw_replies : ~hist.decisions[j].tangent_decision

\* C29 as stated: every message list handed to the persona-proxy holds only user and
\* assistant roles, so that the proxy payload holds exactly one system message; at turn 0
\* with a non-empty entry_context the list is one user message holding the entry context,
\* without the first reply of the SUT; at later turns it is the whole history up to and
\* including the current reply of the SUT
C29_AsStated ==
  \A k \in DOMAIN hist.proxy_messages :
     LET call == hist.proxy_messages[k]
         history == SubSeq(messages, 1, 2 * call.turn_idx + 1)
     IN  /\ \A i \in DOMAIN call.messages : call.messages[i].role \in {"user", "assistant"}
         /\ Cardinality({i \in DOMAIN call.payload : call.payload[i].role = "system"}) = 1
         /\ call.turn_idx = 0 /\ setup.entry_context # <<>> =>
              /\ call.messages = <<[role |-> "user", content |-> setup.entry_context]>>
              /\ \A i \in DOMAIN call.messages : call.messages[i].content # turns[1].content
         /\ call.turn_idx > 0 =>
              /\ call.messages = history
              /\ call.messages[Len(call.messages)] =
                   [role |-> "assistant", content |-> turns[2 * call.turn_idx + 1].content]

\* C29 amended: as above, the entry context counting as present when something is left of
\* it after stripping the blanks around it; the message holds the stripped entry context,
\* and at turn 0 with a blank entry context the list is the history, that is the first
\* reply of the SUT alone
C29_ProxyMessages ==
  \A k \in DOMAIN hist.proxy_messages :
     LET call == hist.proxy_messages[k]
         history == SubSeq(messages, 1, 2 * call.turn_idx + 1)
     IN  /\ \A i \in DOMAIN call.messages : call.messages[i].role \in {"user", "assistant"}
         /\ Cardinality({i \in DOMAIN call.payload : call.payload[i].role = "system"}) = 1
         /\ call.turn_idx = 0 /\ Strip(setup.entry_context) # <<>> =>
              /\ call.messages = <<[role |-> "user", content |-> Strip(setup.entry_context)]>>
              /\ \A i \in DOMAIN call.messages : call.messages[i].content # turns[1].content
         /\ call.turn_idx > 0 \/ Strip(setup.entry_context) = <<>> =>
              /\ call.messages = history
              /\ call.messages[Len(call.messages)] =
                   [role |-> "assistant", content |-> turns[2 * call.turn_idx + 1].content]

C29_Witness ==
  /\ Strip(setup.entry_context) # <<>>
  /\ \E k \in DOMAIN hist.proxy_messages :
       /\ hist.proxy_messages[k].turn_idx > 0
       /\ Len(hist.proxy_messages[k].messages) = 2 * hist.proxy_messages[k].turn_idx + 1
       /\ Len(hist.proxy_messages[1].messages) = 1

\* the persona reply of turn t (counted from 0) is recorded, holds "anyway", "side note" or
\* "btw", and the run went on after it
TangentTextAt(t) ==
  /\ 2 * (t + 1) \in DOMAIN turns
  /\ \E i \in DOMAIN turns[2 * (t + 1)].content :
       Occurrences(LowerAtom(turns[2 * (t + 1)].content[i])) \cap {"anyway", "side note", "btw"} # {}
  /\ turn_idx > t

\* C30: after a turn t that does not end the run and whose persona reply holds "anyway",
\* "side note" or "btw", whatever the controller decided at t and also with the controller
\* disabled, last_tangent_turn is t once turn t is over, and tangent_decision is false at
\* the turns t + 1 and t + 2
C30_TangentCooldown ==
  \A t \in 0..(turn_idx - 1) :
     TangentTextAt(t) =>
        /\ turn_idx = t + 1 => last_tangent_turn = t
        /\ \A j \in {t + 2, t + 3} \cap DOMAIN hist.decisions :
             /\ hist.decisions[j].turn = j - 1
             /\ ~hist.decisions[j].tangent_decision
        /\ t + 2 \in DOMAIN hist.decisions => hist.decisions[t + 2].last_tangent_turn = t

C30_Witness ==
  \E t \in 0..(turn_idx - 1) :
     /\ TangentTextAt(t)
     /\ ~hist.decisions[t + 1].tangent_decision
     /\ t + 3 \in DOMAIN hist.decisions
     /\ hist.decisions[t + 2].field_just_captured
     /\ hist.decisions[t + 3].field_just_captured
     /\ setup.use_controller

LoopEnded == pc \in {"after_loop", "returned"}

LoopCallsBounded ==
  /\ hist.sut_calls <= setup.max_turns
  /\ hist.proxy_calls \in {hist.sut_calls, hist.sut_calls - 1}
  /\ LoopEnded <=>
       hist.exit \in {"success", "timeout", "sut_error", "proxy_error", "exhausted"}
  /\ ~LoopEnded => hist.exit = "none"

\* C31: with every SUT and proxy call returning or raising, the turn loop ends; at most
\* max_turns SUT calls are made, the proxy calls are as many as the SUT calls or one less,
\* and the loop ends in exactly one of success break, timeout break, SUT failure, proxy
\* failure or exhaustion of max_turns (the way out, once taken, never changes)
C31_LoopTerminates ==
  /\ []LoopCallsBounded
  /\ [][hist.exit # "none" => hist'.exit = hist.exit]_vars
  /\ <>LoopEnded

C31_Witness ==
  /\ pc = "after_loop"
  /\ hist.exit = "exhausted"
  /\ setup.max_turns = FairTurns
  /\ hist.sut_calls = setup.max_turns
  /\ hist.proxy_calls = hist.sut_calls

\* the .md and .jsonl files of the output directory whose names start with the run id of
\* the wrapper followed by "__"
Transcripts ==
  {name \in retry.output_dir.files :
     /\ Len(name) > Len(retry.run_id) + 1
     /\ \A i \in 1..Len(retry.run_id) : name[i] = retry.run_id[i]
     /\ name[Len(retry.run_id) + 1] = "__"
     /\ name[Len(name)] \in {".md", ".jsonl"}}

WrapperEnded == retry.state \in {"returned", "raised"}

ConversationStatus ==
  {"COMPLETED_SUCCESSFULLY", "SUMMARY_PROVIDED_AWAITING_CONFIRMATION", "INCOMPLETE",
   "FAILED", "TIMEOUT", "ERROR"}

StatusLevelPairs ==
  { <<"TIMEOUT", 25>>, <<"ERROR", 10>>, <<"COMPLETED_SUCCESSFULLY", 100>>,
    <<"SUMMARY_PROVIDED_AWAITING_CONFIRMATION", 80>>, <<"INCOMPLETE", 50>> }

\* C37: every outcome determine_conversation_outcome returns has its status and
\* completion_level among (TIMEOUT, 25), (ERROR, 10), (COMPLETED_SUCCESSFULLY, 100),
\* (SUMMARY_PROVIDED_AWAITING_CONFIRMATION, 80), (INCOMPLETE, 50); the status FAILED and
\* the initial completion_level 0 are never returned
C37_StatusLevelPairs ==
  final_outcome # <<>>
    => /\ final_outcome[1].status \in ConversationStatus \ {"FAILED"}
       /\ final_outcome[1].completion_level # 0
       /\ <<final_outcome[1].status, final_outcome[1].completion_level>> \in StatusLevelPairs

\* a timeout together with errors: the one case in which neither the error branch nor the
\* success section sets the pair
C37_Witness ==
  /\ pc = "classified"
  /\ timeout_reached
  /\ api_errors # <<>>
  /\ sut_provided_summary
  /\ proxy_confirmed
  /\ <<final_outcome[1].status, final_outcome[1].completion_level>> = <<"TIMEOUT", 25>>

\* the text holds one of the summary-announcement phrases
HoldsSummaryPhrase(text) ==
  \E i \in DOMAIN text : Occurrences(LowerAtom(text[i])) \cap summary_phrases # {}

\* the SUT turns recorded so far, in order
SutTurnIndexes == {i \in DOMAIN turns : turns[i].role = "system"}

LastSutTurn == CHOOSE i \in SutTurnIndexes : \A j \in SutTurnIndexes : j <= i

\* C33: the sut_provided_summary flag reflects the last SUT reply received only: it is
\* true exactly when that reply holds a summary phrase, whatever the earlier replies were,
\* and a run whose last SUT reply is no summary is classified, without timeout and without
\* errors, as INCOMPLETE with the failure "SUT did not provide a role summary"
C33_SummaryNotLatched ==
  /\ sut_provided_summary <=>
       (SutTurnIndexes # {} /\ HoldsSummaryPhrase(turns[LastSutTurn].content))
  /\ (/\ pc = "returned"
      /\ ~timeout_reached
      /\ api_errors = <<>>
      /\ SutTurnIndexes # {}
      /\ ~HoldsSummaryPhrase(turns[LastSutTurn].content))
     => /\ final_outcome[1].status = "INCOMPLETE"
        /\ \E f \in DOMAIN final_outcome[1].failures :
             /\ final_outcome[1].failures[f].category = "INCOMPLETE_INFORMATION"
             /\ final_outcome[1].failures[f].reason = "SUT did not provide a role summary"

C33_Witness ==
  /\ pc = "returned"
  /\ ~timeout_reached
  /\ api_errors = <<>>
  /\ \E i \in SutTurnIndexes : i < LastSutTurn /\ HoldsSummaryPhrase(turns[i].content)
  /\ ~HoldsSummaryPhrase(turns[LastSutTurn].content)
  /\ final_outcome[1].status = "INCOMPLETE"

FinalStatus == final_outcome[1].status

\* the recorded error text is one the wrapper would retry on
TransientText(error) ==
  \E i \in DOMAIN error : Occurrences(LowerAtom(error[i])) \cap transient_indicators # {}

\* the passes of the wrapper that ended with an exception
RaisedPasses == {i \in DOMAIN retry.outcomes : retry.outcomes[i].kind = "error"}

\* no pass of the wrapper ended with the exception of an LLM call: what left the run was
\* the error of the transcript file
NoLlmFailureEscaped ==
  \A i \in RaisedPasses : retry.outcomes[i].error \in SaveErrors

\* the wrapper has returned the record of a run in which an LLM call failed
ReturnedFailedRun ==
  /\ pc = "retry"
  /\ retry.state = "returned"
  /\ retry.calls > 0
  /\ api_errors # <<>>

FailedRunRecord ==
  ReturnedFailedRun
    => /\ "transcript_path" \in retry.returned[1]
       /\ FinalStatus \in {"ERROR", "TIMEOUT"}
       /\ retry.calls = 1 + Cardinality(RaisedPasses)
       /\ retry.raised = <<>>

\* a run that has come to its return is a pass that returns: no further pass follows it
ReturnEndsWrapper ==
  (pc = "returned" /\ retry.state = "loop")
    => (retry'.state = "returned" /\ retry'.calls = retry.calls)

\* C38: a failed SUT or proxy call inside a run never makes the wrapper retry: the run
\* catches it and returns a record with transcript_path, which the wrapper returns in the
\* same pass with status ERROR or TIMEOUT, also when the error text is a transient one
C38_NoRetryOnLlmFailure ==
  /\ [](NoLlmFailureEscaped /\ FailedRunRecord)
  /\ [][ReturnEndsWrapper]_vars

C38_Witness ==
  /\ ReturnedFailedRun
  /\ TransientText(api_errors[1])
  /\ retry.attempt < cli.max_retries
  /\ retry.calls = 1
  /\ FinalStatus = "ERROR"

\* the number of "?" in the text
QuestionMarks(text) == Cardinality({i \in DOMAIN text : text[i] = Q})

\* the PROTOCOL_VIOLATION failures of the final outcome
ProtocolViolations ==
  {f \in DOMAIN final_outcome[1].failures :
     final_outcome[1].failures[f].category = "PROTOCOL_VIOLATION"}

\* C39: in the final outcome of a run a PROTOCOL_VIOLATION failure refers only to a SUT turn
\* whose content holds a summary phrase: every other SUT turn is recorded with at most
\* one "?", so the classifier does not flag it
C39_ViolationsOnSummariesOnly ==
  /\ \A i \in SutTurnIndexes :
       ~HoldsSummaryPhrase(turns[i].content) => QuestionMarks(turns[i].content) <= 1
  /\ pc = "returned" =>
       \A f \in ProtocolViolations :
         LET at == final_outcome[1].failures[f].turn_occurred
         IN  /\ Len(at) = 1
             /\ at[1] \in SutTurnIndexes
             /\ HoldsSummaryPhrase(turns[at[1]].content)
             /\ QuestionMarks(turns[at[1]].content) > 1

C39_Witness ==
  /\ pc = "returned"
  /\ ProtocolViolations # {}
  /\ \E i \in SutTurnIndexes :
       i > 1 /\ ~HoldsSummaryPhrase(turns[i].content) /\ QuestionMarks(turns[i].content) = 1

\* the text holds one of the confirmation phrases
HoldsConfirmationPhrase(text) ==
  \E i \in DOMAIN text : Occurrences(LowerAtom(text[i])) \cap confirmation_phrases # {}

\* the last recorded turn is a persona reply
EndsWithPersonaReply == turns # <<>> /\ turns[Len(turns)].role = "user"

\* C34: a run ends COMPLETED_SUCCESSFULLY only through the success break (last SUT reply a
\* summary, last persona reply a confirmation), without a recorded API error and with the
\* final elapsed time below the timeout; never after a timeout break, a failed call or
\* the exhaustion of max_turns
C34_CompletedOnlyBySuccessBreak ==
  (pc = "returned" /\ FinalStatus = "COMPLETED_SUCCESSFULLY")
    => /\ hist.exit = "success"
       /\ api_errors = <<>>
       /\ hist.failed_calls = 0
       /\ clock < DefaultTimeout
       /\ SutTurnIndexes # {}
       /\ HoldsSummaryPhrase(turns[LastSutTurn].content)
       /\ EndsWithPersonaReply
       /\ HoldsConfirmationPhrase(turns[Len(turns)].content)

C34_Witness ==
  /\ pc = "returned"
  /\ FinalStatus = "COMPLETED_SUCCESSFULLY"
  /\ hist.exit = "success"
  /\ turn_idx > 0

\* C35: a run ends SUMMARY_PROVIDED_AWAITING_CONFIRMATION only when the loop ran out of
\* max_turns (max_turns >= 1), the final SUT reply holds a summary phrase and the final
\* persona reply holds no confirmation phrase, without an API error and with the final
\* elapsed time below the timeout
C35_AwaitingOnlyByExhaustion ==
  (pc = "returned" /\ FinalStatus = "SUMMARY_PROVIDED_AWAITING_CONFIRMATION")
    => /\ hist.exit = "exhausted"
       /\ setup.max_turns >= 1
       /\ turn_idx = setup.max_turns
       /\ api_errors = <<>>
       /\ clock < DefaultTimeout
       /\ SutTurnIndexes # {}
       /\ HoldsSummaryPhrase(turns[LastSutTurn].content)
       /\ EndsWithPersonaReply
       /\ ~HoldsConfirmationPhrase(turns[Len(turns)].content)

C35_Witness ==
  /\ pc = "returned"
  /\ FinalStatus = "SUMMARY_PROVIDED_AWAITING_CONFIRMATION"
  /\ hist.exit = "exhausted"

\* the failures of the outcome that come from an API error (the detectors append
\* failures of category SUT_ERROR of their own)
ApiFailureIndexes ==
  {f \in DOMAIN final_outcome[1].failures :
     final_outcome[1].failures[f].reason = "API request failed during conversation"}

\* C36: api_errors never holds more than one entry, the first failed call ending the loop,
\* and the final outcome carries at most one failure that comes from an API error
C36_AtMostOneApiError ==
  /\ Len(api_errors) <= 1
  /\ hist.failed_calls = Len(api_errors)
  /\ pc = "returned" => Cardinality(ApiFailureIndexes) <= 1

C36_Witness ==
  /\ pc = "returned"
  /\ Len(api_errors) = 1
  /\ Cardinality(ApiFailureIndexes) = 1
  /\ hist.sut_calls >= 2

(***************************************************************************)
(* Properties of the analyzer's construction (specification SpecLoad)      *)
(***************************************************************************)
SameFields(f, g) == DOMAIN f = DOMAIN g /\ \A k \in DOMAIN f : f[k] = g[k]

\* the cases in which the claim expects the defaults
NothingToLoad(document) ==
  \/ ~document.exists
  \/ ~document.readable
  \/ _extract_mandatory_section(document.content) = <<>>
  \/ \A i \in DOMAIN _extract_mandatory_section(document.content) :
        FieldNameOf(_extract_mandatory_section(document.content)[i]) = ""

\* C23: when the prompt document is missing, cannot be read, has no mandatory-fields
\* section, or its section gives no field, the analyzer's mandatory fields are the 8
\* default ones; they are never empty.
C23_AsStated ==
  loaded.mandatory_fields # <<>> =>
     /\ DOMAIN loaded.mandatory_fields[1] # {}
     /\ NothingToLoad(loaded.document) => SameFields(loaded.mandatory_fields[1], mandatory_fields)

(***************************************************************************)
(* Properties of _make_request (specification SpecRequest)                 *)
(***************************************************************************)
\* the class of exception the claim expects for what the transport does; "none" for a
\* response that is returned
ExpectedClass(t) ==
  IF t.does = "requests.Timeout" THEN "APITimeoutError"
  ELSE IF t.does = "response" /\ t.status_code = 429 THEN "APIRateLimitError"
  ELSE IF t.does # "response" \/ t.status_code >= 400 \/ ~t.is_json THEN "APIError"
  ELSE "none"

\* C24: _make_request raises APITimeoutError for a request timeout, APIRateLimitError
\* for an HTTP 429 response and APIError for every other failure, so that the class of
\* the exception tells the three apart.
C24_AsStated ==
  request # <<>> /\ request.outcome # <<>> =>
     request.outcome[1].cls = ExpectedClass(request.transport)

(***************************************************************************)
(* Properties of the field extraction (specification SpecExtract)          *)
(***************************************************************************)
EmploymentOrder ==
  <<[keywords |-> {"full-time", "fulltime"}, value |-> <<"Full-time">>],
    [keywords |-> {"part-time", "parttime"}, value |-> <<"Part-time">>],
    [keywords |-> {"contract"}, value |-> <<"Contract">>],
    [keywords |-> {"intern", "internship"}, value |-> <<"Internship">>]>>

WorkplaceOrder ==
  <<[keywords |-> {"remote"}, value |-> <<"Remote">>],
    [keywords |-> {"hybrid"}, value |-> <<"Hybrid">>],
    [keywords |-> {"onsite", "on-site"}, value |-> <<"Onsite">>]>>

\* the value is that of rank r exactly when a keyword of rank r is in the text and none of
\* an earlier rank is; there is no value exactly when no keyword is in the text
DecidedByOrder(value, order, text) ==
  /\ \A r \in DOMAIN order :
       value = <<order[r].value>> <=>
         /\ ContainsAny(text, order[r].keywords)
         /\ \A q \in 1..(r - 1) : ~ContainsAny(text, order[q].keywords)
  /\ value = <<>> <=> \A r \in DOMAIN order : ~ContainsAny(text, order[r].keywords)

\* C25: extraction over "Employment Type: Full-time and Location: Remote" with the default
\* mandatory fields yields employment_type "Full-time", workplace_type "Remote" and location
\* "Remote"; over every text employment_type is the value of the first keyword present in
\* the order full-time, part-time, contract, intern, and workplace_type the value of the
\* first present in the order remote, hybrid, onsite
C25_KeywordOrder ==
  extracted # <<>> /\ extracted.fields # <<>> =>
     LET fields == extracted.fields[1]
         text == Lower(extracted.conversation)
     IN  /\ extracted.conversation = ExampleText =>
              /\ fields.employment_type = <<(<<"Full-time">>)>>
              /\ fields.workplace_type = <<(<<"Remote">>)>>
              /\ fields.location = <<(<<"Remote">>)>>
         /\ DecidedByOrder(fields.employment_type, EmploymentOrder, text)
         /\ DecidedByOrder(fields.workplace_type, WorkplaceOrder, text)

C25_Witness ==
  /\ extracted # <<>>
  /\ extracted.conversation = ExampleText
  /\ extracted.fields # <<>>
  /\ extracted.fields[1].location = <<(<<"Remote">>)>>

(***************************************************************************)
(* Properties of run_simulation_with_retry (specifications SpecRetry and   *)
(* SpecRetryFair)                                                          *)
(***************************************************************************)
IsNonTransientFailure(o) ==
  AttemptException(o) # <<>> /\ ~is_transient_error(AttemptException(o)[1])

IsTransientFailure(o) ==
  AttemptException(o) # <<>> /\ is_transient_error(AttemptException(o)[1])

\* C19: an attempt that raises an error which is_transient_error does not take as
\* transient is the last call of engine.run_simulation, and its error is the one raised,
\* whatever max_retries is.
C19_NonTransientPropagates ==
  \A i \in DOMAIN retry.outcomes :
     IsNonTransientFailure(retry.outcomes[i]) =>
        /\ i = Len(retry.outcomes)
        /\ retry.calls = i
        /\ retry.state = "raised"
        /\ retry.raised = AttemptException(retry.outcomes[i])

C19_Witness ==
  /\ cli.max_retries = MaxRetries
  /\ Len(retry.outcomes) = 2
  /\ IsTransientFailure(retry.outcomes[1])
  /\ retry.outcomes[2].kind = "error"
  /\ IsNonTransientFailure(retry.outcomes[2])
  /\ retry.state = "raised"
  /\ retry.calls = 2

RetryDone == retry.state \in {"returned", "raised"}

RetryWithinBound ==
  /\ retry.calls = Len(retry.outcomes)
  /\ retry.calls <= Max(0, cli.max_retries + 1)
  /\ \A i \in DOMAIN retry.outcomes :
        "transcript_path" \in retry.outcomes[i].results =>
           /\ i = Len(retry.outcomes)
           /\ retry.state = "returned"
           /\ retry.returned = <<retry.outcomes[i].results>>
  /\ retry.state = "returned" => "transcript_path" \in retry.returned[1]
  /\ (/\ retry.calls = cli.max_retries + 1
      /\ retry.outcomes # <<>>
      /\ \A i \in DOMAIN retry.outcomes : IsTransientFailure(retry.outcomes[i]))
       => /\ retry.state = "raised"
          /\ retry.raised = AttemptException(retry.outcomes[retry.calls])
  /\ (/\ retry.state = "raised"
      /\ retry.outcomes # <<>>
      /\ \A i \in DOMAIN retry.outcomes : IsTransientFailure(retry.outcomes[i]))
       => retry.calls = cli.max_retries + 1

\* C20: run_simulation_with_retry comes to an end, after at most max_retries + 1 calls of
\* engine.run_simulation: the first results record that holds transcript_path is returned
\* and no call follows it, and when every attempt fails with a transient error the last
\* error is raised after attempt max_retries + 1.
C20_BoundedRetry == []RetryWithinBound /\ <>RetryDone

C20_Witness ==
  /\ cli.max_retries = MaxRetries
  /\ retry.calls = MaxRetries + 1
  /\ \A i \in DOMAIN retry.outcomes : IsTransientFailure(retry.outcomes[i])
  /\ retry.state = "raised"
  /\ retry.raised = AttemptException(retry.outcomes[MaxRetries + 1])

(***************************************************************************)
(* Properties of run_simulation (specification Spec)                       *)
(***************************************************************************)
Returned == pc = "returned"

\* C4, as stated: after the success exit the status is COMPLETED_SUCCESSFULLY and the
\* completion level 100, however long the calls took.
C4_AsStated ==
  (Returned /\ hist.exit = "success") => StatusPair = <<"COMPLETED_SUCCESSFULLY", 100>>

\* C4: after the success exit the status is COMPLETED_SUCCESSFULLY and the completion
\* level 100 when the final elapsed time is below the timeout; when the calls took the
\* run to the timeout or beyond it, the status is TIMEOUT and the completion level 25.
C4_SuccessExit ==
  (Returned /\ hist.exit = "success") =>
     StatusPair = IF clock < DefaultTimeout THEN <<"COMPLETED_SUCCESSFULLY", 100>>
                  ELSE <<"TIMEOUT", 25>>

C4_Witness ==
  /\ Returned
  /\ hist.exit = "success"
  /\ Len(turns) >= 4
  /\ StatusPair = <<"COMPLETED_SUCCESSFULLY", 100>>

\* the failures of the outcome that carry the error string e
CarriesError(e) == {i \in DOMAIN Outcome.failures : Outcome.failures[i].error_message = <<e>>}

C6_AsStated ==
  (Returned /\ hist.failed_calls > 0) =>
     \A i \in CarriesError(api_errors[1]) :
        Outcome.failures[i].category =
          IF hist.failed_role = "sut" THEN "SUT_ERROR" ELSE "PROXY_ERROR"

\* C7: once the timeout has been seen at the top of an iteration, no call to the SUT or
\* to the proxy is made, the loop is left, and the status of the outcome is TIMEOUT.
C7_TimeoutBreak ==
  hist.timeout_seen =>
     /\ hist.calls_after_timeout = 0
     /\ pc \in {"after_loop", "returned"}
     /\ Returned => Outcome.status = "TIMEOUT"

C7_Witness ==
  /\ Returned
  /\ hist.timeout_seen
  /\ hist.exit = "timeout"
  /\ Len(turns) >= 2
  /\ Outcome.status = "TIMEOUT"

\* the SUT message of turn t, read from the turn list
SutMessageOf(t) == turns[2 * t + 1].content

\* C8: with the controller enabled, two turns for which a tangent is decided are at least
\* 3 turns apart, and a tangent is decided at a turn only if the SUT message of that turn
\* holds the label of a mandatory field.
C8_TangentCooldown ==
  setup.use_controller =>
     /\ \A i, j \in DOMAIN hist.decisions :
          (i < j /\ hist.decisions[i].tangent_decision /\ hist.decisions[j].tangent_decision)
             => hist.decisions[j].turn - hist.decisions[i].turn >= 3
     /\ \A i \in DOMAIN hist.decisions :
          hist.decisions[i].tangent_decision =>
             \E m \in FieldLabelMarkers :
                \E k \in DOMAIN SutMessageOf(hist.decisions[i].turn) :
                   m \in Occurrences(LowerAtom(SutMessageOf(hist.decisions[i].turn)[k]))

C8_Witness ==
  /\ setup.use_controller
  /\ \E i, j \in DOMAIN hist.decisions :
       /\ hist.decisions[i].tangent_decision
       /\ hist.decisions[j].tangent_decision
       /\ hist.decisions[j].turn = hist.decisions[i].turn + 3

\* C9: every SUT message of the turn list without a summary phrase holds at most one "?",
\* at turn 0 and at every later turn.
C9_SingleQuestion ==
  \A i \in DOMAIN turns :
     (turns[i].role = "system" /\ ~check_sut_provided_summary(turns[i].content))
        => CountQ(turns[i].content) <= 1

C9_Witness ==
  /\ Len(turns) >= 3
  /\ turns[1].role = "system"
  /\ turns[1].content = DefaultFirstTurn
  /\ turns[3].role = "system"
  /\ turns[3].content = <<"Job Title: Backend Engineer.", "And which city", Q>>

\* successful calls of the current run
SutCallsOfRun == hist.sut_calls - (IF hist.failed_role = "sut" THEN 1 ELSE 0)

ProxyCallsOfRun == hist.proxy_calls - (IF hist.failed_role = "proxy" THEN 1 ELSE 0)

\* C21: the usage_stats of each results record count the SUT calls, the proxy calls and
\* the tokens of that run only, also when run_simulation is called again on the same engine.
C21_AsStated ==
  run_results # <<>> =>
     /\ run_results[1].usage_stats.sut_calls = SutCallsOfRun
     /\ run_results[1].usage_stats.proxy_calls = ProxyCallsOfRun
     /\ run_results[1].usage_stats.total_tokens = 12 * SutCallsOfRun + 7 * ProxyCallsOfRun

CommonTurns == DOMAIN hist.decisions \cap DOMAIN hist.prev

\* C10, as stated: the second run decides clarifying_allowed and tangent_decision at
\* every turn as the first run did, whatever the SUT and the proxy reply.
C10_AsStated ==
  (hist.run = 2) =>
     \A i \in CommonTurns :
        /\ hist.decisions[i].clarifying_allowed = hist.prev[i].clarifying_allowed
        /\ hist.decisions[i].tangent_decision = hist.prev[i].tangent_decision

\* C10: the second run decides clarifying_allowed at every turn as the first run did,
\* whatever the SUT and the proxy reply; it decides tangent_decision at a turn as the
\* first run did whenever field_just_captured and last_tangent_turn are the same at that
\* turn in both runs.
C10_SameSeed ==
  (hist.run = 2) =>
     \A i \in CommonTurns :
        /\ hist.decisions[i].clarifying_allowed = hist.prev[i].clarifying_allowed
        /\ (/\ hist.decisions[i].field_just_captured = hist.prev[i].field_just_captured
            /\ hist.decisions[i].last_tangent_turn = hist.prev[i].last_tangent_turn)
           => hist.decisions[i].tangent_decision = hist.prev[i].tangent_decision

C10_Witness ==
  /\ hist.run = 2
  /\ Len(hist.decisions) = 2
  /\ Len(hist.prev) = 2
  /\ turns # <<>>
  /\ hist.decisions[1].tangent_decision
  /\ hist.prev[1].tangent_decision
  /\ hist.decisions[2].field_just_captured
  /\ hist.prev[2].field_just_captured
  /\ ~hist.decisions[2].tangent_decision

====
